---- MODULE Spec2Model ----
(***************************************************************************)
(* A model of the grove storage client: the Propagation Monitor            *)
(* (UploadResponse.waitForPropagation), the Authorization Service           *)
(* (AuthorizationService.authorize) and the mutating operations of the      *)
(* facade (StorageClient.delete, StorageClient.editFile).                   *)
(*                                                                         *)
(* Strings are modelled as sequences of tokens, so that concatenation,     *)
(* startsWith and slice are computed and not assumed.                       *)
(***************************************************************************)
EXTENDS Integers, Sequences, FiniteSets, TLC

(***************************************************************************)
(* Bounds of the model.                                                    *)
(***************************************************************************)
\* largest propagationTimeout an environment is given (in clock ticks)
MaxTimeout == 3
\* largest propagationPollingInterval an environment is given (in ticks)
MaxInterval == 2
\* a status query is answered at most this many ticks after it was sent
MaxLatency == 2
\* a timer fires at most this many ticks after it was due
MaxLateness == 1
\* Date.now() when the wait is started is at most this
MaxStartClock == 1

(***************************************************************************)
(* Strings.                                                                *)
(***************************************************************************)
LENS_SCHEME == <<"lens">>

LENS_URI_SUFFIX == LENS_SCHEME \o <<"://">>

Backend == <<"https://api.grove.storage">>

StartsWith(s, prefix) ==
    /\ Len(s) >= Len(prefix)
    /\ SubSeq(s, 1, Len(prefix)) = prefix

\* a slip: the prefix is looked for and not cut off
extractStorageKeyKeepsScheme(storageKeyOrUri) ==
    IF StartsWith(storageKeyOrUri, LENS_URI_SUFFIX)
    THEN storageKeyOrUri
    ELSE storageKeyOrUri

extractStorageKey(storageKeyOrUri) ==
    IF StartsWith(storageKeyOrUri, LENS_URI_SUFFIX)
    THEN SubSeq(storageKeyOrUri, Len(LENS_URI_SUFFIX) + 1, Len(storageKeyOrUri))
    ELSE storageKeyOrUri

\* a variant: the gateway URL is made of the URI
resourceFromGatewayOfUri(storageKey) ==
    [storageKey |-> storageKey,
     gatewayUrl |-> Backend \o <<"/">> \o LENS_SCHEME \o <<"://">> \o storageKey,
     uri |-> LENS_SCHEME \o <<"://">> \o storageKey]

resourceFrom(storageKey) ==
    [ storageKey |-> storageKey,
      gatewayUrl |-> Backend \o <<"/">> \o storageKey,
      uri        |-> LENS_SCHEME \o <<"://">> \o storageKey ]

(***************************************************************************)
(* Status values the backend reports.  "available" stands for any value    *)
(* the switch of waitForPropagation has no case for.                       *)
(***************************************************************************)
ErrorStatuses == {"error_upload", "error_edit", "error_delete", "unauthorized"}

PendingStatuses == {"new", "pending", "idle", "available"}

Statuses == {"done"} \cup ErrorStatuses \cup PendingStatuses

\* the ways a status query fails: fetch rejects, the response is not ok,
\* the body of an ok response does not parse, an ok response has no body
StatusFailures == {"rejected", "not_ok", "bad_json", "no_body"}

\* the cause of an error: no Error, or the one Error it was made with
NoCause == <<>>

NoError == [name |-> "none", message |-> <<>>, cause |-> NoCause]

\* fetch itself rejecting: the TypeError of the runtime, whose cause is the
\* error of the connection
FetchError ==
    [name |-> "TypeError", message |-> <<"fetch failed">>,
     cause |-> <<[name |-> "Error", message |-> <<"ECONNREFUSED">>, cause |-> NoCause]>>]

\* reading the body of a response a second time
BodyUsedError ==
    [name |-> "TypeError", message |-> <<"Body is unusable: Body has already been read">>,
     cause |-> NoCause]

\* BaseError.formatMessage(cause): the messages of the error and of the
\* errors down its chain of causes, joined with ' due to '
RECURSIVE formatMessage(_)
formatMessage(error) ==
    IF error.cause = NoCause THEN error.message
    ELSE error.message \o <<" due to ">> \o formatMessage(error.cause[1])

\* StorageClientError.from(args) for a string
StorageClientErrorFromString(message) ==
    [name |-> "StorageClientError", message |-> message, cause |-> NoCause]

\* StorageClientError.from(args) for an Error: the message is formatMessage
\* of the error; the { cause } option is handed to a constructor that takes
\* the message only, so no cause is kept
StorageClientErrorFromError(error) ==
    [name |-> "StorageClientError", message |-> formatMessage(error), cause |-> NoCause]

StatusErrorMessage(storageKey, status) ==
    <<"The resource ">> \o storageKey \o <<" has returned a '", status, "' status.">>

TimeoutMessage(uri) ==
    <<"Timeout waiting for ">> \o uri \o <<" to be persisted.">>

\* bodies of non-success responses: JSON with a message, JSON without one,
\* the JSON value null, text that is no JSON
ErrorBodies ==
    { [json |-> TRUE,  isNull |-> FALSE, hasMessage |-> TRUE,  message |-> <<"denied">>,
       text |-> <<"{message:denied}">>],
      [json |-> TRUE,  isNull |-> FALSE, hasMessage |-> FALSE, message |-> <<>>,
       text |-> <<"{}">>],
      [json |-> TRUE,  isNull |-> TRUE,  hasMessage |-> FALSE, message |-> <<>>,
       text |-> <<"null">>],
      [json |-> FALSE, isNull |-> FALSE, hasMessage |-> FALSE, message |-> <<>>,
       text |-> <<"Bad Gateway">>] }

\* a response without a body (204 No Content, new Response(null)): its text
\* is empty and it is no JSON
NoBody ==
    [json |-> FALSE, isNull |-> FALSE, hasMessage |-> FALSE, message |-> <<>>, text |-> <<>>]

\* BaseError.fromResponse: the message field of a JSON body (new Error(undefined)
\* has an empty message); the raw text when `const { message } = await
\* response.clone().json()` throws, that is when the body is no JSON and when
\* it is the JSON value null, which cannot be destructured
MessageFromResponse(body) ==
    IF body.json /\ ~body.isNull
    THEN (IF body.hasMessage THEN body.message ELSE <<>>)
    ELSE body.text

StorageClientErrorFromResponse(body) ==
    [name |-> "StorageClientError", message |-> MessageFromResponse(body), cause |-> NoCause]

\* the bodies the response of a failed status query can have
FailureBodies(failure) ==
    IF failure = "not_ok" THEN ErrorBodies ELSE {NoBody}

\* what StorageClient.status throws for a failed query: what fetch rejected
\* with; the error made from a response that is not ok; when the body of an
\* ok response does not parse, what fromResponse rejects with in the catch,
\* the body having been read by response.json(); and when an ok response
\* has no body, the error fromResponse makes in the catch from its empty
\* text, nothing having been read
StatusQueryError(failure, body) ==
    CASE failure = "rejected" -> FetchError
      [] failure = "bad_json" -> BodyUsedError
      [] failure = "no_body" -> StorageClientErrorFromResponse(NoBody)
      [] OTHER -> StorageClientErrorFromResponse(body)

VARIABLES
    now,        \* Date.now()
    env,        \* client.env: propagationTimeout, propagationPollingInterval
    resource,   \* the resource of the UploadResponse
    mpc,        \* where waitForPropagation is
    startedAt,  \* its local startedAt
    sentAt,     \* when the status query in flight was sent
    wakeAt,     \* when the pending delay() is due
    queries,    \* status queries sent
    waits,      \* delay() calls made
    pending,    \* answers with a non-terminal status received
    lastStatus, \* the status of the last answer ("none" before the first)
    mtrace,     \* the queries and waits in the order they were made
    merror      \* the error waitForPropagation rejected with

mvars == <<now, env, resource, mpc, startedAt, sentAt, wakeAt, queries, waits,
           pending, lastStatus, mtrace, merror>>

VARIABLES
    calls,      \* the invocations of delete and editFile, each with its locals
    issued,     \* challenges the backend has issued
    accepted    \* signed challenges the backend has accepted

avars == <<calls, issued, accepted>>

VARIABLES
    ups,        \* the invocations of the uploads, each with its locals
    minted      \* storage keys the backend has given out

uvars == <<ups, minted>>

VARIABLES
    policy,     \* the policy createAclTemplateContent is given
    document,   \* what it made of the policy
    parts,      \* the entries of a multipart body
    boundary,   \* the boundary of the body
    at,         \* where multipartStream is
    chunks,     \* what the stream has emitted
    declared    \* the Content-Length createMultipartRequestInit declared

pvars == <<policy, document, parts, boundary, at, chunks, declared>>

VARIABLES
    entriesBuilder, \* a MultipartEntriesBuilder: allocations, idx, entries
    added       \* what its caller has asked it to add, in the order of the calls

bvars == <<entriesBuilder, added>>

VARIABLES
    runtime,    \* what the runtime makes of a Request with a stream as body
    inits,      \* the calls of createMultipartRequestInit, each with its locals
    probes      \* the runs of detectStreamSupport: begun, completed

rvars == <<runtime, inits, probes>>

vars == <<mvars, avars, uvars, pvars, bvars, rvars>>

\* what the operations of each part leave alone
exceptMonitor == <<avars, uvars, pvars, bvars, rvars>>

exceptAuth == <<mvars, uvars, pvars, bvars, rvars>>

exceptUpload == <<mvars, avars, pvars, bvars, rvars>>

exceptBuilder == <<mvars, avars, uvars, pvars, rvars>>

exceptRequest == <<mvars, avars, uvars, pvars, bvars>>

MonitorInit ==
    /\ now \in 0..MaxStartClock
    /\ env \in [propagationTimeout : (0 - 1)..MaxTimeout,
                propagationPollingInterval : 1..MaxInterval]
    /\ resource = resourceFrom(<<"k1">>)
    /\ mpc = "idle"
    /\ startedAt = 0
    /\ sentAt = 0
    /\ wakeAt = 0
    /\ queries = 0
    /\ waits = 0
    /\ pending = 0
    /\ lastStatus = "none"
    /\ mtrace = <<>>
    /\ merror = NoError

MonitorIdle ==
    /\ now = 0
    /\ env = [propagationTimeout |-> MaxTimeout, propagationPollingInterval |-> 1]
    /\ resource = resourceFrom(<<"k1">>)
    /\ mpc = "idle"
    /\ startedAt = 0
    /\ sentAt = 0
    /\ wakeAt = 0
    /\ queries = 0
    /\ waits = 0
    /\ pending = 0
    /\ lastStatus = "none"
    /\ mtrace = <<>>
    /\ merror = NoError

\* delay(ms): a timer that is due ms from now
delay(ms) == now + ms

\* a slip: the clock is compared with the timeout, startedAt forgotten
WithinTimeoutIgnoresStart(t, started, timeout) == t < timeout

\* a variant: the loop is entered when the timeout has just been reached
WithinTimeoutInclusive(t, started, timeout) == t - started <= timeout

\* the condition of the while loop
WithinTimeout(t, started, timeout) == t - started < timeout

\* The head of the loop, up to the first suspension: either the status query
\* is sent, or the loop is left and the timeout error thrown.
LoopHead(started) ==
    IF WithinTimeout(now, started, env.propagationTimeout)
    THEN /\ mpc' = "status"
         /\ sentAt' = now
         /\ queries' = queries + 1
         /\ mtrace' = Append(mtrace, "query")
         /\ merror' = merror
    ELSE /\ mpc' = "failed"
         /\ merror' = StorageClientErrorFromString(TimeoutMessage(resource.uri))
         /\ UNCHANGED <<sentAt, queries, mtrace>>

\* waitForPropagation is called
WaitForPropagation ==
    /\ mpc = "idle"
    /\ startedAt' = now
    /\ LoopHead(now)
    /\ UNCHANGED <<now, env, resource, wakeAt, waits, pending, lastStatus>>
    /\ UNCHANGED exceptMonitor

\* a slip: 'unauthorized' has no case and falls to the default branch
OnStatusUnauthorizedPolls(status) ==
    CASE status = "done" ->
            /\ mpc' = "succeeded"
            /\ UNCHANGED <<wakeAt, waits, pending, mtrace, merror>>
      [] status \in ErrorStatuses \ {"unauthorized"} ->
            /\ mpc' = "failed"
            /\ merror' = StorageClientErrorFromError(
                   StorageClientErrorFromString(
                       StatusErrorMessage(resource.storageKey, status)))
            /\ UNCHANGED <<wakeAt, waits, pending, mtrace>>
      [] OTHER ->
            /\ mpc' = "delay"
            /\ wakeAt' = delay(env.propagationPollingInterval)
            /\ waits' = waits + 1
            /\ pending' = pending + 1
            /\ mtrace' = Append(mtrace, "wait")
            /\ merror' = merror

\* a slip: 'idle' is taken for the end of the propagation
OnStatusIdleSucceeds(status) ==
    CASE status \in {"done", "idle"} ->
            /\ mpc' = "succeeded"
            /\ UNCHANGED <<wakeAt, waits, pending, mtrace, merror>>
      [] status \in ErrorStatuses ->
            /\ mpc' = "failed"
            /\ merror' = StorageClientErrorFromError(
                   StorageClientErrorFromString(
                       StatusErrorMessage(resource.storageKey, status)))
            /\ UNCHANGED <<wakeAt, waits, pending, mtrace>>
      [] OTHER ->
            /\ mpc' = "delay"
            /\ wakeAt' = delay(env.propagationPollingInterval)
            /\ waits' = waits + 1
            /\ pending' = pending + 1
            /\ mtrace' = Append(mtrace, "wait")
            /\ merror' = merror

\* a variant: an answer that comes after the timeout is a timeout
OnStatusUnderTimeout(status) ==
    IF ~WithinTimeout(now, startedAt, env.propagationTimeout)
    THEN /\ mpc' = "failed"
         /\ merror' = StorageClientErrorFromString(TimeoutMessage(resource.uri))
         /\ UNCHANGED <<wakeAt, waits, pending, mtrace>>
    ELSE CASE status = "done" ->
                 /\ mpc' = "succeeded"
                 /\ UNCHANGED <<wakeAt, waits, pending, mtrace, merror>>
           [] status \in ErrorStatuses ->
                 /\ mpc' = "failed"
                 /\ merror' = StorageClientErrorFromError(
                        StorageClientErrorFromString(
                            StatusErrorMessage(resource.storageKey, status)))
                 /\ UNCHANGED <<wakeAt, waits, pending, mtrace>>
           [] OTHER ->
                 /\ mpc' = "delay"
                 /\ wakeAt' = delay(env.propagationPollingInterval)
                 /\ waits' = waits + 1
                 /\ pending' = pending + 1
                 /\ mtrace' = Append(mtrace, "wait")
                 /\ merror' = merror

\* the switch over the status of an answer
OnStatus(status) ==
    CASE status = "done" ->
            /\ mpc' = "succeeded"
            /\ UNCHANGED <<wakeAt, waits, pending, mtrace, merror>>
      [] status \in ErrorStatuses ->
            /\ mpc' = "failed"
            /\ merror' = StorageClientErrorFromError(
                   StorageClientErrorFromString(
                       StatusErrorMessage(resource.storageKey, status)))
            /\ UNCHANGED <<wakeAt, waits, pending, mtrace>>
      [] OTHER ->
            /\ mpc' = "delay"
            /\ wakeAt' = delay(env.propagationPollingInterval)
            /\ waits' = waits + 1
            /\ pending' = pending + 1
            /\ mtrace' = Append(mtrace, "wait")
            /\ merror' = merror

\* the status query is answered with a status
StatusAnswer ==
    /\ mpc = "status"
    /\ \E status \in Statuses :
        /\ lastStatus' = status
        /\ OnStatus(status)
    /\ UNCHANGED <<now, env, resource, startedAt, sentAt, queries>>
    /\ UNCHANGED exceptMonitor

\* a slip: the catch swallows the error of a failed query and polls again
StatusFailureRetries ==
    /\ mpc = "status"
    /\ \E failure \in StatusFailures :
        /\ mpc' = "delay"
        /\ lastStatus' = failure
        /\ wakeAt' = delay(env.propagationPollingInterval)
        /\ waits' = waits + 1
        /\ mtrace' = Append(mtrace, "wait")
    /\ UNCHANGED <<now, env, resource, startedAt, sentAt, queries, pending, merror>>
    /\ UNCHANGED exceptMonitor

\* the status query fails: client.status throws, the catch rethrows
StatusFailure ==
    /\ mpc = "status"
    /\ \E failure \in StatusFailures :
        \E body \in FailureBodies(failure) :
            /\ mpc' = "failed"
            /\ lastStatus' = failure
            /\ merror' = StorageClientErrorFromError(StatusQueryError(failure, body))
    /\ UNCHANGED <<now, env, resource, startedAt, sentAt, wakeAt, queries, waits,
                   pending, mtrace>>
    /\ UNCHANGED exceptMonitor

\* a variant: the delay is raced against the timeout and cut short by it
DelayElapsedOrTimeout ==
    /\ mpc = "delay"
    /\ \/ now >= wakeAt
       \/ ~WithinTimeout(now, startedAt, env.propagationTimeout)
    /\ LoopHead(startedAt)
    /\ UNCHANGED <<now, env, resource, startedAt, wakeAt, waits, pending, lastStatus>>
    /\ UNCHANGED exceptMonitor

\* the timer of delay() fires and the loop goes round
DelayElapsed ==
    /\ mpc = "delay"
    /\ now >= wakeAt
    /\ LoopHead(startedAt)
    /\ UNCHANGED <<now, env, resource, startedAt, wakeAt, waits, pending, lastStatus>>
    /\ UNCHANGED exceptMonitor

\* time passes while the wait is suspended
Tick ==
    /\ mpc \in {"status", "delay"}
    /\ mpc = "status" => now - sentAt < MaxLatency
    /\ mpc = "delay" => now < wakeAt + MaxLateness
    /\ now' = now + 1
    /\ UNCHANGED <<env, resource, mpc, startedAt, sentAt, wakeAt, queries, waits,
                   pending, lastStatus, mtrace, merror>>
    /\ UNCHANGED exceptMonitor

MonitorNext ==
    \/ WaitForPropagation
    \/ StatusAnswer
    \/ StatusFailure
    \/ DelayElapsed
    \/ Tick

(***************************************************************************)
(* Authorization Service and the mutating operations of the facade.        *)
(***************************************************************************)
\* the invocations of delete / editFile, which may be in progress together
Calls == {"c1", "c2"}

StorageKeys == {<<"k1">>, <<"k2">>}

\* what a caller passes as storageKeyOrUri
References == StorageKeys \cup {LENS_URI_SUFFIX \o k : k \in StorageKeys}

DefaultChainId == 232

\* an acl option that is absent; a policy has the fields of its variant, and
\* the fields of the other variants are absent (<<>>)
NoAcl ==
    [template |-> "undefined", chainId |-> 0, lensAccount |-> <<>>,
     walletAddress |-> <<>>, contractAddress |-> <<>>, functionSig |-> <<>>,
     params |-> <<>>]

immutable(chainId) ==
    [NoAcl EXCEPT !.template = "immutable", !.chainId = chainId]

lensAccountOnly(account, chainId) ==
    [NoAcl EXCEPT !.template = "lens_account", !.chainId = chainId,
                  !.lensAccount = account]

walletOnly(address, chainId) ==
    [NoAcl EXCEPT !.template = "wallet_address", !.chainId = chainId,
                  !.walletAddress = address]

\* what build() of the builder of a generic ACL throws
GenericAclError ==
    [name |-> "Error", message |-> <<"GenericAclTemplate is missing required fields">>,
     cause |-> NoCause]

\* GenericAclTemplateBuilder.isValid: every field is truthy. set tells
\* whether withParams was called (an empty array is truthy)
isValid(acl, set) ==
    /\ acl.template = "generic_acl"
    /\ acl.contractAddress /= <<>>
    /\ acl.functionSig /= <<>>
    /\ set
    /\ acl.chainId /= 0

\* genericAcl(chainId).withContractAddress(..).withFunctionSig(..).withParams(..).build():
\* the policy, or the error of build(). The contract address and the
\* function sig are <<>> when their method was not called (or was given '');
\* params is << >> when withParams was not called, and else the one-element
\* list of its argument
genericAcl(chainId, contractAddress, functionSig, params) ==
    LET acl == [NoAcl EXCEPT !.template = "generic_acl", !.chainId = chainId,
                             !.contractAddress = contractAddress,
                             !.functionSig = functionSig,
                             !.params = IF params = <<>> THEN <<>> ELSE params[1]] IN
    IF isValid(acl, params /= <<>>)
    THEN [error |-> NoError, acl |-> acl]
    ELSE [error |-> GenericAclError, acl |-> NoAcl]

\* the acl option of editFile: absent, or a policy of the caller
AclOptions == {NoAcl, lensAccountOnly(<<"0xA">>, 37111)}

\* a variant: the policy of the caller is bound to the default chain
resolveAclOverridesChain(options) ==
    IF options = NoAcl THEN immutable(DefaultChainId)
    ELSE [options EXCEPT !.chainId = DefaultChainId]

resolveAcl(options) ==
    IF options = NoAcl THEN immutable(DefaultChainId) ELSE options

AuthorizationErrorFromResponse(body) ==
    [name |-> "AuthorizationError", message |-> MessageFromResponse(body), cause |-> NoCause]

\* the body of an ok response not being JSON
JsonError == [name |-> "SyntaxError", message |-> <<"Unexpected token">>, cause |-> NoCause]

\* what the signer rejects with
SignerError == [name |-> "UserRejectedRequestError", message |-> <<"User rejected">>, cause |-> NoCause]

\* the signer: a signature over the message it is given
SignatureOf(message) == <<"sig(">> \o message \o <<")">>

\* the backend's n-th challenge and the id of its m-th accepted challenge
ChallengeNo(n) ==
    [message |-> <<"msg-", ToString(n)>>, secret_random |-> <<"secret-", ToString(n)>>]

ChallengeCid(m) == <<"cid-", ToString(m)>>

NoChallenge == [message |-> <<>>, secret_random |-> <<>>]

NoAuthorization == [challengeId |-> <<>>, secret |-> <<>>]

\* requests, and the signer's invocation, as one record shape
NoEvent ==
    [type |-> "none", storage_key |-> <<>>, action |-> "", message |-> <<>>,
     secret_random |-> <<>>, signature |-> <<>>, challenge_cid |-> <<>>,
     entries |-> <<>>, streaming |-> FALSE]

\* POST {backend}/challenge/new with {storage_key, action}
ChallengeNewRequest(action, storageKey) ==
    [NoEvent EXCEPT !.type = "challenge/new", !.storage_key = storageKey, !.action = action]

\* signer.signMessage({message})
SignMessageCall(message) ==
    [NoEvent EXCEPT !.type = "signMessage", !.message = message]

\* POST {backend}/challenge/sign with {...challenge, signature}
ChallengeSignRequest(challenge, signature) ==
    [NoEvent EXCEPT !.type = "challenge/sign", !.message = challenge.message,
                    !.secret_random = challenge.secret_random, !.signature = signature]

\* a slip: the two query parameters of the DELETE url are swapped
DeleteRequestSwapsParameters(storageKey, authorization) ==
    [NoEvent EXCEPT !.type = "DELETE", !.storage_key = storageKey,
                    !.challenge_cid = authorization.secret,
                    !.secret_random = authorization.challengeId]

\* DELETE {backend}/{storageKey}?challenge_cid=..&secret_random=..
DeleteRequest(storageKey, authorization) ==
    [NoEvent EXCEPT !.type = "DELETE", !.storage_key = storageKey,
                    !.challenge_cid = authorization.challengeId,
                    !.secret_random = authorization.secret]

\* PUT {backend}/{storageKey}?challenge_cid=..&secret_random=.. with the entries
UpdateRequest(storageKey, authorization, entries, streaming) ==
    [NoEvent EXCEPT !.type = "PUT", !.storage_key = storageKey,
                    !.challenge_cid = authorization.challengeId,
                    !.secret_random = authorization.secret,
                    !.entries = entries, !.streaming = streaming]

\* MultipartEntriesBuilder.from([resource]).withFile(newFile).withAclTemplate(acl).build()
EditEntries(res, file, acl) ==
    << [name |-> res.storageKey, file |-> file, acl |-> NoAcl],
       [name |-> <<"lens-acl.json">>, file |-> <<"lens-acl.json">>, acl |-> acl] >>

\* no request of the call has been answered with a response that is not ok
NotRefused == [at |-> "none", body |-> NoBody]

NoResource == [storageKey |-> <<>>, gatewayUrl |-> <<>>, uri |-> <<>>]

NewCall ==
    [op |-> "none", arg |-> <<>>, options |-> NoAcl, pc |-> "idle",
     storageKey |-> <<>>, challenge |-> NoChallenge, signature |-> <<>>,
     authorization |-> NoAuthorization, entries |-> <<>>, sent |-> <<>>,
     success |-> FALSE, result |-> NoResource, url |-> <<>>, status |-> "none",
     error |-> NoError, refused |-> NotRefused]

AuthInit ==
    /\ calls = [c \in Calls |-> NewCall]
    /\ issued = 0
    /\ accepted = 0

\* a variant: editFile attaches the policy only when the caller gives one
AfterAuthorizeAclOnlyIfGiven(call, authorization) ==
    IF call.op = "delete"
    THEN [call EXCEPT !.authorization = authorization,
                      !.pc = "DELETE",
                      !.sent = Append(@, DeleteRequest(call.storageKey, authorization))]
    ELSE LET entries == EditEntries(resourceFrom(call.storageKey),
                                    IF call.op = "updateJson"
                                    THEN <<"data.json">> ELSE <<"newFile">>,
                                    call.options) IN
         [call EXCEPT !.authorization = authorization,
                      !.pc = "multipart",
                      !.result = resourceFrom(call.storageKey),
                      !.entries = IF call.options = NoAcl
                                  THEN SubSeq(entries, 1, 1) ELSE entries]

\* what follows authorize in delete (the DELETE request is sent) and in
\* editFile (the entries are built, createMultipartRequestInit is awaited)
AfterAuthorize(call, authorization) ==
    IF call.op = "delete"
    THEN [call EXCEPT !.authorization = authorization,
                      !.pc = "DELETE",
                      !.sent = Append(@, DeleteRequest(call.storageKey, authorization))]
    ELSE [call EXCEPT !.authorization = authorization,
                      !.pc = "multipart",
                      !.result = resourceFrom(call.storageKey),
                      !.entries = EditEntries(resourceFrom(call.storageKey),
                                              IF call.op = "updateJson"
                                              THEN <<"data.json">> ELSE <<"newFile">>,
                                              resolveAcl(call.options))]

\* a variant: an authorization obtained earlier for the same key is kept
\* and used again
AuthorizeCached(c, op, action, arg, options) ==
    LET storageKey == extractStorageKey(arg)
        holders == {d \in Calls : /\ calls[d].authorization /= NoAuthorization
                                  /\ calls[d].storageKey = storageKey}
    IN  IF holders /= {}
        THEN calls' = [calls EXCEPT ![c] =
                 AfterAuthorize([@ EXCEPT !.op = op, !.arg = arg, !.options = options,
                                          !.storageKey = storageKey],
                                calls[CHOOSE d \in holders : TRUE].authorization)]
        ELSE calls' = [calls EXCEPT ![c] =
                 [@ EXCEPT !.op = op, !.arg = arg, !.options = options,
                           !.storageKey = storageKey,
                           !.pc = "challenge/new",
                           !.sent = Append(@, ChallengeNewRequest(action, storageKey))]]

\* AuthorizationService.authorize up to its first suspension: requestChallenge
\* sends challenge/new
Authorize(c, op, action, arg, options) ==
    LET storageKey == extractStorageKey(arg) IN
    calls' = [calls EXCEPT ![c] =
        [@ EXCEPT !.op = op, !.arg = arg, !.options = options,
                  !.storageKey = storageKey,
                  !.pc = "challenge/new",
                  !.sent = Append(@, ChallengeNewRequest(action, storageKey))]]

\* StorageClient.delete is called
Delete(c) ==
    /\ calls[c].pc = "idle"
    /\ \E arg \in References : Authorize(c, "delete", "delete", arg, NoAcl)
    /\ UNCHANGED <<issued, accepted, exceptAuth>>

\* StorageClient.editFile is called
EditFile(c) ==
    /\ calls[c].pc = "idle"
    /\ \E arg \in References, options \in AclOptions :
           Authorize(c, "editFile", "edit", arg, options)
    /\ UNCHANGED <<issued, accepted, exceptAuth>>

\* StorageClient.updateJson is called, without a name: editFile with the
\* file data.json
UpdateJson(c) ==
    /\ calls[c].pc = "idle"
    /\ \E arg \in References, options \in AclOptions :
           Authorize(c, "updateJson", "edit", arg, options)
    /\ UNCHANGED <<issued, accepted, exceptAuth>>

\* GET {backend}/status/{storageKey}
StatusRequest(storageKey) ==
    [NoEvent EXCEPT !.type = "GET status", !.storage_key = storageKey]

\* StorageClient.resolve is called: it returns the URL
Resolve(c) ==
    /\ calls[c].pc = "idle"
    /\ \E arg \in References :
        calls' = [calls EXCEPT ![c] =
            [@ EXCEPT !.op = "resolve", !.arg = arg,
                      !.storageKey = extractStorageKey(arg),
                      !.url = Backend \o <<"/">> \o extractStorageKey(arg),
                      !.pc = "returned"]]
    /\ UNCHANGED <<issued, accepted, exceptAuth>>

\* StorageClient.status is called: the status query is sent
Status(c) ==
    /\ calls[c].pc = "idle"
    /\ \E arg \in References :
        calls' = [calls EXCEPT ![c] =
            [@ EXCEPT !.op = "status", !.arg = arg,
                      !.storageKey = extractStorageKey(arg),
                      !.pc = "GET status",
                      !.sent = Append(@, StatusRequest(extractStorageKey(arg)))]]
    /\ UNCHANGED <<issued, accepted, exceptAuth>>

\* the status query is answered ok with a status: status returns it
StatusAnswered(c) ==
    /\ calls[c].pc = "GET status"
    /\ \E status \in Statuses :
        calls' = [calls EXCEPT ![c] = [@ EXCEPT !.pc = "returned", !.status = status]]
    /\ UNCHANGED <<issued, accepted, exceptAuth>>

\* the call rejects
Throw(c, error) ==
    calls' = [calls EXCEPT ![c] = [@ EXCEPT !.pc = "threw", !.error = error]]

\* the call rejects with the error made from a response that is not ok
ThrowFromResponse(c, body, error) ==
    calls' = [calls EXCEPT ![c] =
        [@ EXCEPT !.pc = "threw", !.error = error,
                  !.refused = [at |-> calls[c].pc, body |-> body]]]

\* a slip: the signer is given the secret of the challenge, not its message
ChallengeIssuedSignsSecret(c) ==
    /\ calls[c].pc = "challenge/new"
    /\ issued' = issued + 1
    /\ LET challenge == ChallengeNo(issued + 1) IN
       calls' = [calls EXCEPT ![c] =
           [@ EXCEPT !.challenge = challenge,
                     !.pc = "signMessage",
                     !.sent = Append(@, SignMessageCall(challenge.secret_random))]]
    /\ UNCHANGED <<accepted, exceptAuth>>

\* challenge/new is answered with a challenge: the signer is asked to sign
\* its message
ChallengeIssued(c) ==
    /\ calls[c].pc = "challenge/new"
    /\ issued' = issued + 1
    /\ LET challenge == ChallengeNo(issued + 1) IN
       calls' = [calls EXCEPT ![c] =
           [@ EXCEPT !.challenge = challenge,
                     !.pc = "signMessage",
                     !.sent = Append(@, SignMessageCall(challenge.message))]]
    /\ UNCHANGED <<accepted, exceptAuth>>

\* challenge/new fails: a response that is not ok, a rejected fetch, a body
\* that is no JSON
ChallengeRefused(c) ==
    /\ calls[c].pc = "challenge/new"
    /\ \/ \E body \in ErrorBodies :
              ThrowFromResponse(c, body, AuthorizationErrorFromResponse(body))
       \/ Throw(c, FetchError)
       \/ Throw(c, JsonError)
    /\ UNCHANGED <<issued, accepted, exceptAuth>>

\* the signer resolves: submitSignedChallenge sends challenge/sign
Signed(c) ==
    /\ calls[c].pc = "signMessage"
    /\ LET signature == SignatureOf(calls[c].sent[Len(calls[c].sent)].message) IN
       calls' = [calls EXCEPT ![c] =
           [@ EXCEPT !.signature = signature,
                     !.pc = "challenge/sign",
                     !.sent = Append(@, ChallengeSignRequest(calls[c].challenge, signature))]]
    /\ UNCHANGED <<issued, accepted, exceptAuth>>

\* a slip: the signer's rejection is caught and the challenge submitted
\* unsigned
SignerRejectsSubmitsAnyway(c) ==
    /\ calls[c].pc = "signMessage"
    /\ calls' = [calls EXCEPT ![c] =
           [@ EXCEPT !.pc = "challenge/sign",
                     !.error = SignerError,
                     !.sent = Append(@, ChallengeSignRequest(calls[c].challenge, <<>>))]]
    /\ UNCHANGED <<issued, accepted, exceptAuth>>

\* a slip: the signer's rejection is caught and reported as a failed
\* authorization
SignerRejectsWrapped(c) ==
    /\ calls[c].pc = "signMessage"
    /\ Throw(c, [name |-> "AuthorizationError", message |-> SignerError.message,
                 cause |-> NoCause])
    /\ UNCHANGED <<issued, accepted, exceptAuth>>

\* the signer rejects: its error leaves authorize as it is
SignerRejects(c) ==
    /\ calls[c].pc = "signMessage"
    /\ Throw(c, SignerError)
    /\ UNCHANGED <<issued, accepted, exceptAuth>>

\* challenge/sign is answered with a challenge id: authorize returns
ChallengeAccepted(c) ==
    /\ calls[c].pc = "challenge/sign"
    /\ accepted' = accepted + 1
    /\ calls' = [calls EXCEPT ![c] =
           AfterAuthorize(@, [challengeId |-> ChallengeCid(accepted + 1),
                              secret |-> @.challenge.secret_random])]
    /\ UNCHANGED <<issued, exceptAuth>>

\* a slip: the refusal of challenge/sign is reported as a backend error
ChallengeRejectedAsStorageError(c) ==
    /\ calls[c].pc = "challenge/sign"
    /\ \/ \E body \in ErrorBodies :
              ThrowFromResponse(c, body, StorageClientErrorFromResponse(body))
       \/ Throw(c, FetchError)
       \/ Throw(c, JsonError)
    /\ UNCHANGED <<issued, accepted, exceptAuth>>

\* challenge/sign fails
ChallengeRejected(c) ==
    /\ calls[c].pc = "challenge/sign"
    /\ \/ \E body \in ErrorBodies :
              ThrowFromResponse(c, body, AuthorizationErrorFromResponse(body))
       \/ Throw(c, FetchError)
       \/ Throw(c, JsonError)
    /\ UNCHANGED <<issued, accepted, exceptAuth>>

\* a slip: the authorization is kept in a field of the client that every call
\* writes, and the PUT request reads the one written last
SendUpdateSharedAuthorization(c) ==
    /\ calls[c].pc = "multipart"
    /\ \E streaming \in BOOLEAN :
        LET last == CHOOSE d \in Calls :
                        calls[d].authorization.challengeId = ChallengeCid(accepted) IN
        calls' = [calls EXCEPT ![c] =
            [@ EXCEPT !.pc = "PUT",
                      !.sent = Append(@, UpdateRequest(calls[c].storageKey,
                                                       calls[last].authorization,
                                                       calls[c].entries, streaming))]]
    /\ UNCHANGED <<issued, accepted, exceptAuth>>

\* createMultipartRequestInit resolves (streaming supported or not): update
\* sends the PUT request
SendUpdate(c) ==
    /\ calls[c].pc = "multipart"
    /\ \E streaming \in BOOLEAN :
        calls' = [calls EXCEPT ![c] =
            [@ EXCEPT !.pc = "PUT",
                      !.sent = Append(@, UpdateRequest(calls[c].storageKey,
                                                       calls[c].authorization,
                                                       calls[c].entries, streaming))]]
    /\ UNCHANGED <<issued, accepted, exceptAuth>>

\* the DELETE request is answered, ok or not: delete returns {success}
DeleteAnswered(c) ==
    /\ calls[c].pc = "DELETE"
    /\ \/ calls' = [calls EXCEPT ![c] = [@ EXCEPT !.pc = "returned", !.success = TRUE]]
       \/ \E body \in ErrorBodies :
              calls' = [calls EXCEPT ![c] =
                  [@ EXCEPT !.pc = "returned", !.success = FALSE,
                            !.refused = [at |-> "DELETE", body |-> body]]]
    /\ UNCHANGED <<issued, accepted, exceptAuth>>

\* the PUT request is answered ok: editFile returns the resource
UpdateAnswered(c) ==
    /\ calls[c].pc = "PUT"
    /\ calls' = [calls EXCEPT ![c] = [@ EXCEPT !.pc = "returned", !.success = TRUE]]
    /\ UNCHANGED <<issued, accepted, exceptAuth>>

\* the PUT request is answered not ok: editFile throws a StorageClientError
UpdateRefused(c) ==
    /\ calls[c].pc = "PUT"
    /\ \E body \in ErrorBodies :
           ThrowFromResponse(c, body, StorageClientErrorFromResponse(body))
    /\ UNCHANGED <<issued, accepted, exceptAuth>>

\* the fetch of the mutating request rejects
MutationFetchFails(c) ==
    /\ calls[c].pc \in {"DELETE", "PUT"}
    /\ Throw(c, FetchError)
    /\ UNCHANGED <<issued, accepted, exceptAuth>>

\* the status query fails: a response that is not ok, a rejected fetch, an
\* ok response whose body is no JSON (fromResponse then reads a used body),
\* an ok response without a body (fromResponse then makes the error of its
\* empty text)
StatusRefused(c) ==
    /\ calls[c].pc = "GET status"
    /\ \/ \E body \in ErrorBodies :
              ThrowFromResponse(c, body, StorageClientErrorFromResponse(body))
       \/ Throw(c, FetchError)
       \/ Throw(c, BodyUsedError)
       \/ Throw(c, StorageClientErrorFromResponse(NoBody))
    /\ UNCHANGED <<issued, accepted, exceptAuth>>

AuthNext ==
    \E c \in Calls :
        \/ Delete(c)
        \/ EditFile(c)
        \/ ChallengeIssued(c)
        \/ ChallengeRefused(c)
        \/ Signed(c)
        \/ SignerRejects(c)
        \/ ChallengeAccepted(c)
        \/ ChallengeRejected(c)
        \/ SendUpdate(c)
        \/ DeleteAnswered(c)
        \/ UpdateAnswered(c)
        \/ UpdateRefused(c)
        \/ MutationFetchFails(c)

(***************************************************************************)
(* Resource Allocator and the uploads of the facade.                       *)
(***************************************************************************)
\* allocateStorage is tried with the amounts -MaxAmount..MaxAmount
MaxAmount == 2

\* uploadFolder is given up to MaxFiles files
MaxFiles == 2

\* the invocations of the uploads
Uploads == {"u1", "u2"}

Amounts == (0 - MaxAmount)..MaxAmount

\* the i-th storage key the backend gives out
KeyNo(i) == <<"key-", ToString(i)>>

\* the i-th file handed to uploadFolder
FileNo(i) == <<"file-", ToString(i)>>

FolderFiles(n) == [i \in 1..n |-> FileNo(i)]

\* the index option of uploadFolder: absent, false, true, a File named
\* index.json, a File of another name, a content factory
Factories ==
    {"factory", "factory that removes", "factory that adds", "factory that reorders"}

IndexOptions == {"absent", "false", "true", "file", "misnamed file"} \cup Factories

\* the acl option of an upload: absent, or a policy of the caller
UploadAclOptions == AclOptions \cup {immutable(37111)}

\* StorageClient.resolve
resolve(storageKeyOrUri) == Backend \o <<"/">> \o extractStorageKey(storageKeyOrUri)

InvariantError(message) ==
    [name |-> "InvariantError", message |-> message, cause |-> NoCause]

\* a property of undefined is read
UndefinedError ==
    [name |-> "TypeError", message |-> <<"Cannot read properties of undefined">>,
     cause |-> NoCause]

\* invariant(condition, message): the error it throws, NoError when it holds
invariant(condition, message) ==
    IF condition THEN NoError ELSE InvariantError(message)

\* never(message)
never(message) == InvariantError(message)

\* one record of the list the backend answers link/new with; a field may be
\* missing
RecordOf(key, uri) ==
    [hasKey |-> TRUE, storage_key |-> key, hasUri |-> TRUE, uri |-> uri]

\* what the backend is to answer: fresh keys, each with the URI of the key
FreshRecords(amount, from) ==
    [i \in 1..amount |-> RecordOf(KeyNo(from + i), LENS_URI_SUFFIX \o KeyNo(from + i))]

RecordDefects == {"no storage_key", "no uri", "other uri"}

Defective(record, defect) ==
    CASE defect = "no storage_key" ->
            [record EXCEPT !.hasKey = FALSE, !.storage_key = <<>>]
      [] defect = "no uri" ->
            [record EXCEPT !.hasUri = FALSE, !.uri = <<>>]
      [] defect = "other uri" ->
            [record EXCEPT !.uri = LENS_URI_SUFFIX \o <<"elsewhere">>]

\* the lists an ok response to a request for amount keys may carry: the
\* records asked for, one of them defective, or one record too few
Responses(amount, from) ==
    LET fresh == FreshRecords(amount, from) IN
    {fresh, SubSeq(fresh, 1, amount - 1)}
        \cup {[fresh EXCEPT ![i] = Defective(@, d)] :
                 i \in 1..amount, d \in RecordDefects}

\* JSON.stringify(data)
RecordJson(data) ==
    (IF data.hasKey THEN <<"storage_key:">> \o data.storage_key ELSE <<>>)
        \o (IF data.hasUri THEN <<"uri:">> \o data.uri ELSE <<>>)

\* the records of a list that lack a field
Incomplete(list) == {i \in 1..Len(list) : ~list[i].hasKey \/ ~list[i].hasUri}

\* a variant: every resource is given the gateway URL of the first record
parseResourceFromGatewayOfFirst(list) ==
    IF Incomplete(list) /= {}
    THEN LET data == list[CHOOSE i \in Incomplete(list) :
                              \A j \in Incomplete(list) : i <= j] IN
         [error |-> IF ~data.hasKey
                    THEN never(<<"Missing 'storage_key' in response: ">> \o RecordJson(data))
                    ELSE never(<<"Missing 'uri' in response: ">> \o RecordJson(data)),
          resources |-> <<>>]
    ELSE [error |-> NoError,
          resources |-> [i \in 1..Len(list) |->
              [storageKey |-> list[i].storage_key,
               gatewayUrl |-> resolve(list[1].storage_key),
               uri |-> list[i].uri]]]

\* a variant: a record without a uri is given the uri of its storage key
parseResourceFromDefaultsUri(list) ==
    LET broken == {i \in 1..Len(list) : ~list[i].hasKey} IN
    IF broken /= {}
    THEN LET data == list[CHOOSE i \in broken : \A j \in broken : i <= j] IN
         [error |-> never(<<"Missing 'storage_key' in response: ">> \o RecordJson(data)),
          resources |-> <<>>]
    ELSE [error |-> NoError,
          resources |-> [i \in 1..Len(list) |->
              [storageKey |-> list[i].storage_key,
               gatewayUrl |-> resolve(list[i].storage_key),
               uri |-> IF list[i].hasUri THEN list[i].uri
                       ELSE LENS_URI_SUFFIX \o list[i].storage_key]]]

\* StorageClient.parseResourceFrom, given the list response.json() resolved
\* with: the resources, or the error of the first record that lacks a field
parseResourceFrom(list) ==
    IF Incomplete(list) /= {}
    THEN LET data == list[CHOOSE i \in Incomplete(list) :
                              \A j \in Incomplete(list) : i <= j] IN
         [error |-> IF ~data.hasKey
                    THEN never(<<"Missing 'storage_key' in response: ">> \o RecordJson(data))
                    ELSE never(<<"Missing 'uri' in response: ">> \o RecordJson(data)),
          resources |-> <<>>]
    ELSE [error |-> NoError,
          resources |-> [i \in 1..Len(list) |->
              [storageKey |-> list[i].storage_key,
               gatewayUrl |-> resolve(list[i].storage_key),
               uri |-> list[i].uri]]]

\* a request of an upload
NoRequest ==
    [type |-> "none", amount |-> 0, storage_key |-> <<>>, chain_id |-> 0,
     file |-> <<>>, entries |-> <<>>, streaming |-> FALSE]

\* POST {backend}/link/new?amount=..
LinkNewRequest(amount) == [NoRequest EXCEPT !.type = "link/new", !.amount = amount]

\* POST {backend}?chain_id=.. with the file as body
ImmutableRequest(chainId, file) ==
    [NoRequest EXCEPT !.type = "POST ?chain_id", !.chain_id = chainId, !.file = file]

\* POST {backend}/{storageKey} with the entries
CreateRequest(storageKey, entries, streaming) ==
    [NoRequest EXCEPT !.type = "POST", !.storage_key = storageKey,
                      !.entries = entries, !.streaming = streaming]

\* one property of the object literal
Field(key, value) == [key |-> key, value |-> value]

\* a variant: the fields keep the names they have in the policy
createAclTemplateContentKeepsNames(acl) ==
    CASE acl.template = "generic_acl" ->
            [error |-> NoError,
             content |-> << Field("template", acl.template),
                            Field("contractAddress", acl.contractAddress),
                            Field("chainId", acl.chainId),
                            Field("networkType", "evm"),
                            Field("functionSig", acl.functionSig),
                            Field("params", acl.params) >>]
      [] acl.template = "lens_account" ->
            [error |-> NoError,
             content |-> << Field("template", acl.template),
                            Field("lensAccount", acl.lensAccount),
                            Field("chainId", acl.chainId) >>]
      [] acl.template = "wallet_address" ->
            [error |-> NoError,
             content |-> << Field("template", acl.template),
                            Field("walletAddress", acl.walletAddress),
                            Field("chainId", acl.chainId) >>]
      [] acl.template = "immutable" ->
            [error |-> NoError,
             content |-> << Field("template", acl.template),
                            Field("chainId", acl.chainId) >>]
      [] OTHER ->
            [error |-> never(<<"Unknown ACL template: ", "[object Object]">>),
             content |-> <<>>]

\* createAclTemplateContent(acl): the properties of the object it returns, in
\* the order of the literal, or the error of never()
createAclTemplateContent(acl) ==
    CASE acl.template = "generic_acl" ->
            [error |-> NoError,
             content |-> << Field("template", acl.template),
                            Field("contract_address", acl.contractAddress),
                            Field("chain_id", acl.chainId),
                            Field("network_type", "evm"),
                            Field("function_sig", acl.functionSig),
                            Field("params", acl.params) >>]
      [] acl.template = "lens_account" ->
            [error |-> NoError,
             content |-> << Field("template", acl.template),
                            Field("lens_account", acl.lensAccount),
                            Field("chain_id", acl.chainId) >>]
      [] acl.template = "wallet_address" ->
            [error |-> NoError,
             content |-> << Field("template", acl.template),
                            Field("wallet_address", acl.walletAddress),
                            Field("chain_id", acl.chainId) >>]
      [] acl.template = "immutable" ->
            [error |-> NoError,
             content |-> << Field("template", acl.template),
                            Field("chain_id", acl.chainId) >>]
      [] OTHER ->
            [error |-> never(<<"Unknown ACL template: ", "[object Object]">>),
             content |-> <<>>]

\* no entry
NoEntry == [name |-> <<>>, file |-> <<>>, acl |-> NoAcl]

\* createAclEntry(template): the entry lens-acl.json whose file is the JSON
\* of createAclTemplateContent(template), here the policy itself; error is
\* what createAclTemplateContent throws
createAclEntry(template) ==
    LET made == createAclTemplateContent(template) IN
    IF made.error /= NoError
    THEN [error |-> made.error, entry |-> NoEntry]
    ELSE [error |-> NoError,
          entry |-> [name |-> <<"lens-acl.json">>, file |-> <<"lens-acl.json">>,
                     acl |-> template]]

\* MultipartEntriesBuilder.from(allocations); error is what one of its
\* methods threw
BuilderFrom(allocations) ==
    [allocations |-> allocations, idx |-> 0, entries |-> <<>>,
     indexContent |-> <<>>, error |-> NoError]

\* a slip: the index is read and not advanced
withFileKeepsIndex(builder, file) ==
    IF builder.error /= NoError THEN builder
    ELSE IF builder.idx >= Len(builder.allocations)
    THEN [builder EXCEPT !.error = never(<<"Unexpected file, no storage key available">>)]
    ELSE [builder EXCEPT !.entries = Append(@,
                             [name |-> builder.allocations[builder.idx + 1].storageKey,
                              file |-> file, acl |-> NoAcl])]

\* MultipartEntriesBuilder.withFile
withFile(builder, file) ==
    IF builder.error /= NoError THEN builder
    ELSE IF builder.idx >= Len(builder.allocations)
    THEN [builder EXCEPT !.idx = @ + 1,
                         !.error = never(<<"Unexpected file, no storage key available">>)]
    ELSE [builder EXCEPT !.idx = @ + 1,
                         !.entries = Append(@,
                             [name |-> builder.allocations[builder.idx + 1].storageKey,
                              file |-> file, acl |-> NoAcl])]

\* MultipartEntriesBuilder.withFiles
RECURSIVE withFiles(_, _)
withFiles(builder, files) ==
    IF files = <<>> THEN builder
    ELSE withFiles(withFile(builder, Head(files)), Tail(files))

\* a slip: the policy takes a place among the allocations
withAclTemplateTakesKey(builder, template) ==
    LET made == createAclEntry(template) IN
    IF builder.error /= NoError THEN builder
    ELSE IF made.error /= NoError THEN [builder EXCEPT !.error = made.error]
    ELSE [builder EXCEPT !.idx = @ + 1,
                         !.entries = Append(@, made.entry)]

\* MultipartEntriesBuilder.withAclTemplate: what createAclEntry throws leaves
\* the entries as they were
withAclTemplate(builder, template) ==
    LET made == createAclEntry(template) IN
    IF builder.error /= NoError THEN builder
    ELSE IF made.error /= NoError THEN [builder EXCEPT !.error = made.error]
    ELSE [builder EXCEPT !.entries = Append(@, made.entry)]

\* a variant: the default index lists the URIs of the resources
createDefaultIndexContentOfUris(files) == [i \in 1..Len(files) |-> files[i].uri]

\* createDefaultIndexContent(files)
createDefaultIndexContent(files) == [i \in 1..Len(files) |-> files[i].storageKey]

\* Array.prototype.slice(): a new array of the same elements
slice(list) == SubSeq(list, 1, Len(list))

\* the array a content factory was given, as the factory leaves it: it may
\* remove its first element, add one, or reverse the order
ListAfter(index, list) ==
    CASE index = "factory that removes" -> IF list = <<>> THEN list ELSE Tail(list)
      [] index = "factory that adds" -> Append(list, NoResource)
      [] index = "factory that reorders" ->
            [i \in 1..Len(list) |-> list[Len(list) + 1 - i]]
      [] OTHER -> list

\* the content factory of the caller: it lists the URIs of the resources of
\* its array, as it has left it
IndexFactory(files) == [i \in 1..Len(files) |-> files[i].uri]

\* a slip: createIndexFile names the file it makes 'index'
withIndexFileNamedIndex(builder, index) ==
    LET name == CASE index = "misnamed file" -> <<"listing.json">>
                  [] index = "file" -> <<"index.json">>
                  [] OTHER -> <<"index">>
        content == CASE index = "true" -> createDefaultIndexContent(builder.allocations)
                     [] index \in Factories ->
                            IndexFactory(ListAfter(index, slice(builder.allocations)))
                     [] OTHER -> <<>>
        named == invariant(name = <<"index.json">>,
                           <<"Index file must be named 'index.json'">>) IN
    IF builder.error /= NoError THEN builder
    ELSE IF named /= NoError THEN [builder EXCEPT !.error = named]
    ELSE withFile([builder EXCEPT !.indexContent = content], name)

\* a slip: the name of the File is not checked
withIndexFileUnchecked(builder, index) ==
    LET name == IF index = "misnamed file" THEN <<"listing.json">> ELSE <<"index.json">>
        content == CASE index = "true" -> createDefaultIndexContent(builder.allocations)
                     [] index \in Factories ->
                            IndexFactory(ListAfter(index, slice(builder.allocations)))
                     [] OTHER -> <<>> IN
    IF builder.error /= NoError THEN builder
    ELSE withFile([builder EXCEPT !.indexContent = content], name)

\* a slip: the factory is given the array of the builder, not a copy
withIndexFileSharesList(builder, index) ==
    LET name == IF index = "misnamed file" THEN <<"listing.json">> ELSE <<"index.json">>
        given == IF index \in Factories THEN ListAfter(index, builder.allocations)
                 ELSE builder.allocations
        content == CASE index = "true" -> createDefaultIndexContent(builder.allocations)
                     [] index \in Factories -> IndexFactory(given)
                     [] OTHER -> <<>>
        named == invariant(name = <<"index.json">>,
                           <<"Index file must be named 'index.json'">>) IN
    IF builder.error /= NoError THEN builder
    ELSE IF named /= NoError THEN [builder EXCEPT !.error = named, !.allocations = given]
    ELSE withFile([builder EXCEPT !.indexContent = content, !.allocations = given], name)

\* MultipartEntriesBuilder.withIndexFile
withIndexFile(builder, index) ==
    LET name == IF index = "misnamed file" THEN <<"listing.json">> ELSE <<"index.json">>
        content == CASE index = "true" -> createDefaultIndexContent(builder.allocations)
                     [] index \in Factories ->
                            IndexFactory(ListAfter(index, slice(builder.allocations)))
                     [] OTHER -> <<>>
        named == invariant(name = <<"index.json">>,
                           <<"Index file must be named 'index.json'">>) IN
    IF builder.error /= NoError THEN builder
    ELSE IF named /= NoError THEN [builder EXCEPT !.error = named]
    ELSE withFile([builder EXCEPT !.indexContent = content], name)

NewUpload ==
    [op |-> "none", pc |-> "idle", files |-> <<>>, index |-> "absent",
     options |-> NoAcl, acl |-> NoAcl, amount |-> 0, allocation |-> "none",
     response |-> <<>>, answered |-> FALSE, allocations |-> <<>>,
     storageKey |-> <<>>,
     entries |-> <<>>, indexContent |-> <<>>, sent |-> <<>>, result |-> <<>>,
     error |-> NoError, refused |-> NotRefused]

UploadInit ==
    /\ ups = [u \in Uploads |-> NewUpload]
    /\ minted = 0

\* the upload rejects
Reject(upload, error) == [upload EXCEPT !.pc = "threw", !.error = error]

\* the upload rejects with the error made from a response that is not ok
RejectFromResponse(upload, body) ==
    [upload EXCEPT !.pc = "threw", !.error = StorageClientErrorFromResponse(body),
                   !.refused = [at |-> upload.pc, body |-> body]]

\* a variant: the amount is sent to the backend unchecked
allocateStorageUnchecked(upload, amount) ==
    [upload EXCEPT !.amount = amount, !.allocation = "pending",
                   !.pc = "link/new",
                   !.sent = Append(@, LinkNewRequest(amount))]

\* StorageClient.allocateStorage up to its suspension: the amount is checked,
\* link/new is sent. allocation tells how the call of allocateStorage stands:
\* none, pending, rejected, fulfilled
allocateStorage(upload, amount) ==
    LET positive == invariant(amount > 0, <<"Amount must be greater than 0">>) IN
    IF positive /= NoError
    THEN Reject([upload EXCEPT !.amount = amount, !.allocation = "rejected"], positive)
    ELSE [upload EXCEPT !.amount = amount, !.allocation = "pending",
                        !.pc = "link/new",
                        !.sent = Append(@, LinkNewRequest(amount))]

\* uploadMutableFile after allocateStorage(1): the entries are built and
\* createMultipartRequestInit is awaited
AfterAllocateFile(upload, resources) ==
    LET builder == withAclTemplate(withFile(BuilderFrom(resources), upload.files[1]),
                                   upload.acl) IN
    IF builder.error /= NoError
    THEN Reject(upload, builder.error)
    ELSE [upload EXCEPT !.storageKey = resources[1].storageKey,
                        !.entries = builder.entries,
                        !.pc = "multipart"]

\* a slip: the create request of a folder is sent to the last key allocated
AfterAllocateFolderTargetsLastKey(upload, resources) ==
    LET fileResources == IF resources = <<>> THEN <<>> ELSE Tail(resources)
        filed == withFiles(BuilderFrom(fileResources), upload.files)
        indexed == IF upload.index \in {"absent", "false"} THEN filed
                   ELSE withIndexFile(filed, upload.index)
        acl == resolveAcl(upload.options)
        builder == withAclTemplate(indexed, acl) IN
    IF builder.error /= NoError
    THEN Reject(upload, builder.error)
    ELSE IF resources = <<>>
    THEN Reject([upload EXCEPT !.acl = acl], UndefinedError)
    ELSE [upload EXCEPT !.acl = acl,
                        !.storageKey = resources[Len(resources)].storageKey,
                        !.allocations = <<resources[1]>> \o builder.allocations,
                        !.entries = builder.entries,
                        !.indexContent = builder.indexContent,
                        !.pc = "multipart"]

\* uploadFolder after allocateStorage: fileResources is the array the builder
\* is made from, and the array returned as files
AfterAllocateFolder(upload, resources) ==
    LET fileResources == IF resources = <<>> THEN <<>> ELSE Tail(resources)
        filed == withFiles(BuilderFrom(fileResources), upload.files)
        indexed == IF upload.index \in {"absent", "false"} THEN filed
                   ELSE withIndexFile(filed, upload.index)
        acl == resolveAcl(upload.options)
        builder == withAclTemplate(indexed, acl) IN
    IF builder.error /= NoError
    THEN Reject(upload, builder.error)
    ELSE IF resources = <<>>
    THEN Reject([upload EXCEPT !.acl = acl], UndefinedError)
    ELSE [upload EXCEPT !.acl = acl,
                        !.storageKey = resources[1].storageKey,
                        !.allocations = <<resources[1]>> \o builder.allocations,
                        !.entries = builder.entries,
                        !.indexContent = builder.indexContent,
                        !.pc = "multipart"]

\* what follows parseResourceFrom in the operation that allocated
AfterAllocate(upload, resources) ==
    CASE upload.op = "allocateStorage" ->
            [upload EXCEPT !.pc = "returned", !.result = resources]
      [] upload.op = "uploadFolder" -> AfterAllocateFolder(upload, resources)
      [] OTHER -> AfterAllocateFile(upload, resources)

\* a variant: every file is uploaded by allocation and create request
uploadFileAlwaysAllocates(upload, op, file, options) ==
    LET acl == resolveAcl(options)
        started == [upload EXCEPT !.op = op, !.files = <<file>>,
                                  !.options = options, !.acl = acl] IN
    allocateStorage(started, 1)

\* StorageClient.uploadFile up to its first suspension
uploadFile(upload, op, file, options) ==
    LET acl == resolveAcl(options)
        started == [upload EXCEPT !.op = op, !.files = <<file>>,
                                  !.options = options, !.acl = acl] IN
    IF acl.template = "immutable"
    THEN [started EXCEPT !.pc = "POST ?chain_id",
                         !.sent = Append(@, ImmutableRequest(acl.chainId, file))]
    ELSE allocateStorage(started, 1)

\* the Resource Allocator is asked for amount storage keys
AllocateStorage(u, amount) ==
    /\ ups[u].pc = "idle"
    /\ ups' = [ups EXCEPT ![u] = allocateStorage([@ EXCEPT !.op = "allocateStorage"], amount)]
    /\ UNCHANGED <<minted, exceptUpload>>

\* StorageClient.uploadFile is called
UploadFile(u, options) ==
    /\ ups[u].pc = "idle"
    /\ ups' = [ups EXCEPT ![u] = uploadFile(@, "uploadFile", FileNo(1), options)]
    /\ UNCHANGED <<minted, exceptUpload>>

\* StorageClient.uploadAsJson is called, without a name
UploadAsJson(u, options) ==
    /\ ups[u].pc = "idle"
    /\ ups' = [ups EXCEPT ![u] = uploadFile(@, "uploadAsJson", <<"data.json">>, options)]
    /\ UNCHANGED <<minted, exceptUpload>>

\* a slip: no key is asked for the index
UploadFolderWithoutIndexKey(u, n, index, options) ==
    /\ ups[u].pc = "idle"
    /\ ups' = [ups EXCEPT ![u] =
           allocateStorage([@ EXCEPT !.op = "uploadFolder", !.files = FolderFiles(n),
                                     !.index = index, !.options = options],
                           n + 1)]
    /\ UNCHANGED <<minted, exceptUpload>>

\* StorageClient.uploadFolder is called
UploadFolder(u, n, index, options) ==
    /\ ups[u].pc = "idle"
    /\ LET needsIndex == index /= "absent" /\ index /= "false" IN
       ups' = [ups EXCEPT ![u] =
           allocateStorage([@ EXCEPT !.op = "uploadFolder", !.files = FolderFiles(n),
                                     !.index = index, !.options = options],
                           n + (IF needsIndex THEN 2 ELSE 1))]
    /\ UNCHANGED <<minted, exceptUpload>>

\* a slip: the entries are collected in a list that the invocations share
LinkNewAnsweredSharedEntries(u) ==
    /\ ups[u].pc = "link/new"
    /\ minted' = minted + ups[u].amount
    /\ \E list \in Responses(ups[u].amount, minted) :
        LET parsed == parseResourceFrom(list)
            upload == [ups[u] EXCEPT !.response = list, !.answered = TRUE]
            others == CHOOSE v \in Uploads : v /= u
            after == AfterAllocate([upload EXCEPT !.allocation = "fulfilled",
                                                  !.allocations = parsed.resources],
                                   parsed.resources) IN
        ups' = [ups EXCEPT ![u] =
            IF parsed.error /= NoError
            THEN Reject([upload EXCEPT !.allocation = "rejected"], parsed.error)
            ELSE [after EXCEPT !.entries = ups[others].entries \o @]]
    /\ UNCHANGED exceptUpload

\* link/new is answered ok with a list: parseResourceFrom, then the rest of
\* the operation up to its next suspension
LinkNewAnswered(u) ==
    /\ ups[u].pc = "link/new"
    /\ minted' = minted + ups[u].amount
    /\ \E list \in Responses(ups[u].amount, minted) :
        LET parsed == parseResourceFrom(list)
            upload == [ups[u] EXCEPT !.response = list, !.answered = TRUE] IN
        ups' = [ups EXCEPT ![u] =
            IF parsed.error /= NoError
            THEN Reject([upload EXCEPT !.allocation = "rejected"], parsed.error)
            ELSE AfterAllocate([upload EXCEPT !.allocation = "fulfilled",
                                              !.allocations = parsed.resources],
                               parsed.resources)]
    /\ UNCHANGED exceptUpload

\* a slip: a response that is not ok is answered with a second request
LinkNewRefusedRetries(u) ==
    /\ ups[u].pc = "link/new"
    /\ \/ \E body \in ErrorBodies :
              ups' = [ups EXCEPT ![u] =
                  IF Len(ups[u].sent) < 2
                  THEN [@ EXCEPT !.sent = Append(@, LinkNewRequest(ups[u].amount))]
                  ELSE RejectFromResponse([@ EXCEPT !.allocation = "rejected"], body)]
       \/ ups' = [ups EXCEPT ![u] = Reject([@ EXCEPT !.allocation = "rejected"], FetchError)]
       \/ ups' = [ups EXCEPT ![u] = Reject([@ EXCEPT !.allocation = "rejected"], JsonError)]
    /\ UNCHANGED <<minted, exceptUpload>>

\* link/new fails: a response that is not ok, a rejected fetch, a body that
\* is no JSON
LinkNewRefused(u) ==
    /\ ups[u].pc = "link/new"
    /\ \/ \E body \in ErrorBodies :
              ups' = [ups EXCEPT ![u] =
                  RejectFromResponse([@ EXCEPT !.allocation = "rejected"], body)]
       \/ ups' = [ups EXCEPT ![u] = Reject([@ EXCEPT !.allocation = "rejected"], FetchError)]
       \/ ups' = [ups EXCEPT ![u] = Reject([@ EXCEPT !.allocation = "rejected"], JsonError)]
    /\ UNCHANGED <<minted, exceptUpload>>

\* createMultipartRequestInit resolves (streaming supported or not): create
\* sends the POST request
SendCreate(u, streaming) ==
    /\ ups[u].pc = "multipart"
    /\ ups' = [ups EXCEPT ![u] =
           [@ EXCEPT !.pc = "POST",
                     !.sent = Append(@, CreateRequest(ups[u].storageKey, ups[u].entries,
                                                      streaming))]]
    /\ UNCHANGED <<minted, exceptUpload>>

\* the create request is answered ok: uploadFile returns the resource,
\* uploadFolder the folder and the files
CreateAnswered(u) ==
    /\ ups[u].pc = "POST"
    /\ ups' = [ups EXCEPT ![u] =
           [@ EXCEPT !.pc = "returned",
                     !.result = IF ups[u].op = "uploadFolder" THEN ups[u].allocations
                                ELSE <<ups[u].allocations[1]>>]]
    /\ UNCHANGED <<minted, exceptUpload>>

\* a slip: response.ok is not looked at after the create request
CreateRefusedReturns(u) ==
    /\ ups[u].pc = "POST"
    /\ \/ \E body \in ErrorBodies :
              ups' = [ups EXCEPT ![u] =
                  [@ EXCEPT !.pc = "returned",
                            !.refused = [at |-> "POST", body |-> body],
                            !.result = IF ups[u].op = "uploadFolder" THEN ups[u].allocations
                                       ELSE <<ups[u].allocations[1]>>]]
       \/ ups' = [ups EXCEPT ![u] = Reject(@, FetchError)]
    /\ UNCHANGED <<minted, exceptUpload>>

\* the create request is answered not ok, or its fetch rejects
CreateRefused(u) ==
    /\ ups[u].pc = "POST"
    /\ \/ \E body \in ErrorBodies : ups' = [ups EXCEPT ![u] = RejectFromResponse(@, body)]
       \/ ups' = [ups EXCEPT ![u] = Reject(@, FetchError)]
    /\ UNCHANGED <<minted, exceptUpload>>

\* the POST of an immutable file is answered ok with a list of one record:
\* parseResourceFrom, and uploadFile returns its first resource
ImmutableAnswered(u) ==
    /\ ups[u].pc = "POST ?chain_id"
    /\ minted' = minted + 1
    /\ \E list \in Responses(1, minted) :
        LET parsed == parseResourceFrom(list)
            upload == [ups[u] EXCEPT !.response = list, !.answered = TRUE] IN
        ups' = [ups EXCEPT ![u] =
            IF parsed.error /= NoError THEN Reject(upload, parsed.error)
            ELSE IF parsed.resources = <<>> THEN Reject(upload, UndefinedError)
            ELSE [upload EXCEPT !.pc = "returned",
                                !.storageKey = parsed.resources[1].storageKey,
                                !.result = <<parsed.resources[1]>>]]
    /\ UNCHANGED exceptUpload

\* the POST of an immutable file fails
ImmutableRefused(u) ==
    /\ ups[u].pc = "POST ?chain_id"
    /\ \/ \E body \in ErrorBodies : ups' = [ups EXCEPT ![u] = RejectFromResponse(@, body)]
       \/ ups' = [ups EXCEPT ![u] = Reject(@, FetchError)]
       \/ ups' = [ups EXCEPT ![u] = Reject(@, JsonError)]
    /\ UNCHANGED <<minted, exceptUpload>>

UploadNext ==
    \E u \in {"u1"} :
        \/ \E amount \in Amounts : AllocateStorage(u, amount)
        \/ \E options \in UploadAclOptions : UploadFile(u, options)
        \/ \E options \in UploadAclOptions : UploadAsJson(u, options)
        \/ \E n \in 0..MaxFiles, index \in IndexOptions, options \in UploadAclOptions :
               UploadFolder(u, n, index, options)
        \/ LinkNewAnswered(u)
        \/ LinkNewRefused(u)
        \/ \E streaming \in BOOLEAN : SendCreate(u, streaming)
        \/ CreateAnswered(u)
        \/ CreateRefused(u)
        \/ ImmutableAnswered(u)
        \/ ImmutableRefused(u)

(***************************************************************************)
(* MultipartEntriesBuilder, called as any caller may call it.              *)
(***************************************************************************)
\* createAclEntry has not been called
NoDocument == [called |-> FALSE, error |-> NoError, name |-> <<>>, content |-> <<>>]

\* multipartStream has not been called
NotStarted == [entry |-> 0, step |-> "idle", read |-> 0]

\* a builder is asked for up to MaxCalls entries
MaxCalls == 3

\* the resources of the first n keys the backend gives out
Allocated(n) == parseResourceFrom(FreshRecords(n, 0)).resources

\* what a caller asks a builder to add: a file, or the policy
AddedFile(file) == [kind |-> "file", file |-> file]

AddedAcl == [kind |-> "acl", file |-> <<"lens-acl.json">>]

\* the File withIndexFile adds: the File it is given, or the one
\* createIndexFile makes
IndexFileName(index) ==
    IF index = "misnamed file" THEN <<"listing.json">> ELSE <<"index.json">>

\* no builder is in use
BuilderIdle ==
    /\ entriesBuilder = BuilderFrom(<<>>)
    /\ added = <<>>

\* the calls of createMultipartRequestInit
Requests == {"r1", "r2"}

\* the RequestInit of a call that has not resolved
NoInit ==
    [method |-> "", contentType |-> <<>>, contentLength |-> 0 - 1, duplex |-> "",
     body |-> [kind |-> "none", boundary |-> <<>>, parts |-> <<>>]]

NewRequest ==
    [pc |-> "idle", method |-> "", entries |-> <<>>, after |-> 0,
     supported |-> FALSE, init |-> NoInit, error |-> NoError]

\* no multipart request is being made
RequestIdle ==
    /\ runtime = "native"
    /\ inits = [r \in Requests |-> NewRequest]
    /\ probes = [begun |-> 0, completed |-> 0]

\* MultipartEntriesBuilder.from(allocations)
BuilderInit ==
    /\ MonitorIdle /\ AuthInit /\ UploadInit /\ RequestIdle
    /\ policy = NoAcl
    /\ document = NoDocument
    /\ parts = <<>>
    /\ boundary = <<>>
    /\ at = NotStarted
    /\ chunks = <<>>
    /\ declared = 0
    /\ \E n \in 0..MaxFiles : entriesBuilder = BuilderFrom(Allocated(n))
    /\ added = <<>>

\* the builder can be called: none of its methods has thrown
Callable ==
    /\ entriesBuilder.error = NoError
    /\ Len(added) < MaxCalls

\* builder.withFile(file)
WithFile(file) ==
    /\ Callable
    /\ entriesBuilder' = withFile(entriesBuilder, file)
    /\ added' = Append(added, AddedFile(file))
    /\ UNCHANGED exceptBuilder

\* builder.withFiles(files)
WithFiles(files) ==
    /\ Callable
    /\ entriesBuilder' = withFiles(entriesBuilder, files)
    /\ added' = added \o [i \in 1..Len(files) |-> AddedFile(files[i])]
    /\ UNCHANGED exceptBuilder

\* builder.withAclTemplate(template)
WithAclTemplate(template) ==
    /\ Callable
    /\ entriesBuilder' = withAclTemplate(entriesBuilder, template)
    /\ added' = Append(added, AddedAcl)
    /\ UNCHANGED exceptBuilder

\* builder.withIndexFile(index): a File of another name is refused before it
\* is added
WithIndexFile(index) ==
    /\ Callable
    /\ entriesBuilder' = withIndexFile(entriesBuilder, index)
    /\ added' = IF IndexFileName(index) = <<"index.json">>
                THEN Append(added, AddedFile(IndexFileName(index)))
                ELSE added
    /\ UNCHANGED exceptBuilder

BuilderNext ==
    \/ \E i \in 1..MaxFiles : WithFile(FileNo(i))
    \/ \E n \in 0..MaxFiles : WithFiles(FolderFiles(n))
    \/ \E template \in {immutable(DefaultChainId), lensAccountOnly(<<"0xA">>, 37111),
                          [lensAccountOnly(<<"0xA">>, DefaultChainId)
                               EXCEPT !.template = "lens_profile"]} :
           WithAclTemplate(template)
    \/ \E index \in IndexOptions \ {"absent", "false"} : WithIndexFile(index)

\* the builder alone
BuilderSpec == BuilderInit /\ [][BuilderNext]_vars

(***************************************************************************)
(* The lens-acl.json document.                                             *)
(***************************************************************************)
ChainIds == {DefaultChainId, 37111, 1}

Addresses == {<<"0xA">>, <<"0xB">>, <<"0xC">>}

FunctionSigs == {<<"isOwner(address)">>, <<"balanceOf(address)">>}

\* params of a generic ACL; the first is RECOVERED_ADDRESS_PARAM_MARKER
ParamLists == {<<>>, <<"<recovered_address>">>, <<"<recovered_address>", "1">>}

\* what build() gives for the calls a builder of a generic ACL may have
\* had: any chain, 0 too, and each of the other fields set or not
GenericAclBuilds ==
    {genericAcl(chainId, a, f, ps) :
        chainId \in ChainIds \cup {0}, a \in Addresses \cup {<<>>},
        f \in FunctionSigs \cup {<<>>},
        ps \in {<<>>} \cup {<<list>> : list \in ParamLists}}

\* the policies of the four variants, and values that have another
\* discriminant (a cast gets them past the type checker)
Policies ==
    {immutable(chainId) : chainId \in ChainIds}
        \cup {lensAccountOnly(a, chainId) : a \in Addresses, chainId \in ChainIds}
        \cup {walletOnly(a, chainId) : a \in Addresses, chainId \in ChainIds}
        \cup {built.acl : built \in {b \in GenericAclBuilds : b.error = NoError}}
        \cup {[lensAccountOnly(a, DefaultChainId) EXCEPT !.template = "lens_profile"] :
                  a \in Addresses}

SerializeInit ==
    /\ MonitorIdle /\ AuthInit /\ UploadInit /\ BuilderIdle /\ RequestIdle
    /\ policy \in Policies
    /\ document = NoDocument
    /\ parts = <<>>
    /\ boundary = <<>>
    /\ at = NotStarted
    /\ chunks = <<>>
    /\ declared = 0

\* createAclEntry(template): the file lens-acl.json with the JSON of the
\* content, unless createAclTemplateContent throws
CreateAclEntry ==
    /\ ~document.called
    /\ LET made == createAclTemplateContent(policy) IN
       document' = [called |-> TRUE, error |-> made.error,
                    name |-> IF made.error = NoError THEN <<"lens-acl.json">> ELSE <<>>,
                    content |-> made.content]
    /\ UNCHANGED <<policy, parts, boundary, at, chunks, declared, mvars, avars, uvars, bvars, rvars>>

\* the serialization of policies alone
SerializeSpec == SerializeInit /\ [][CreateAclEntry]_vars

(***************************************************************************)
(* The multipart body: multipartStream and computeMultipartSize.           *)
(* A string is a sequence of pieces of text; Utf8Length and Utf16Length    *)
(* tell how many bytes TextEncoder makes of a piece and how many code      *)
(* units it has.                                                           *)
(***************************************************************************)
\* a body has up to MaxParts entries
MaxParts == 2

\* the pieces of text: the literals of the templates, boundaries, names,
\* file names and types, with their bytes in UTF-8 and their UTF-16 units
Pieces ==
    { [text |-> "--",                                     utf8 |-> 2,  utf16 |-> 2],
      [text |-> "\\r\\n",                                   utf8 |-> 2,  utf16 |-> 2],
      [text |-> "--\\r\\n",                                 utf8 |-> 4,  utf16 |-> 4],
      [text |-> "Content-Disposition: form-data; name=\"", utf8 |-> 38, utf16 |-> 38],
      [text |-> "\"; filename=\"",                         utf8 |-> 13, utf16 |-> 13],
      [text |-> "\"\\r\\n",                                utf8 |-> 3,  utf16 |-> 3],
      [text |-> "Content-Type: ",                         utf8 |-> 14, utf16 |-> 14],
      [text |-> "\\r\\n\\r\\n",                             utf8 |-> 4,  utf16 |-> 4],
      [text |-> "----WebKitFormBoundary",                 utf8 |-> 22, utf16 |-> 22],
      [text |-> "k3j9x",                                  utf8 |-> 5,  utf16 |-> 5],
      [text |-> "0mz",                                    utf8 |-> 3,  utf16 |-> 3],
      [text |-> "key-1",                                  utf8 |-> 5,  utf16 |-> 5],
      [text |-> "key-2",                                  utf8 |-> 5,  utf16 |-> 5],
      [text |-> "lens-acl.json",                          utf8 |-> 13, utf16 |-> 13],
      [text |-> "a.txt",                                  utf8 |-> 5,  utf16 |-> 5],
      [text |-> "caf\\u00e9.txt",                          utf8 |-> 9,  utf16 |-> 8],
      [text |-> "text/plain",                             utf8 |-> 10, utf16 |-> 10],
      [text |-> "application/json",                       utf8 |-> 16, utf16 |-> 16] }

PieceOf(text) == CHOOSE piece \in Pieces : piece.text = text

\* new TextEncoder().encode(string).length
RECURSIVE Utf8Length(_)
Utf8Length(string) ==
    IF string = <<>> THEN 0 ELSE PieceOf(Head(string)).utf8 + Utf8Length(Tail(string))

\* string.length
RECURSIVE Utf16Length(_)
Utf16Length(string) ==
    IF string = <<>> THEN 0 ELSE PieceOf(Head(string)).utf16 + Utf16Length(Tail(string))

\* a File: name, type, and the sizes of the chunks its stream yields
FileOf(name, type, content) == [name |-> name, type |-> type, content |-> content]

RECURSIVE SumOf(_)
SumOf(sizes) == IF sizes = <<>> THEN 0 ELSE Head(sizes) + SumOf(Tail(sizes))

\* file.size
SizeOf(file) == SumOf(file.content)

\* the entries a body is made of
MultipartEntries ==
    { [name |-> <<"key-1">>, file |-> FileOf(<<"a.txt">>, <<"text/plain">>, <<3, 2>>)],
      [name |-> <<"key-2">>, file |-> FileOf(<<"caf\\u00e9.txt">>, <<>>, <<>>)],
      [name |-> <<"lens-acl.json">>,
       file |-> FileOf(<<"lens-acl.json">>, <<"application/json">>, <<4>>)] }

\* `----WebKitFormBoundary${Math.random().toString(36).substring(2)}`
Boundaries ==
    { <<"----WebKitFormBoundary", "k3j9x">>, <<"----WebKitFormBoundary", "0mz">>,
      <<"----WebKitFormBoundary">> }

\* the lists of up to n entries
RECURSIVE EntryLists(_)
EntryLists(n) ==
    IF n = 0 THEN {<<>>}
    ELSE EntryLists(n - 1)
            \cup {Append(list, e) : list \in {l \in EntryLists(n - 1) : Len(l) = n - 1},
                                    e \in MultipartEntries}

\* the strings multipartStream yields and computeMultipartSize measures
BoundaryLine(b) == <<"--">> \o b \o <<"\\r\\n">>

ContentDisposition(name, file) ==
    <<"Content-Disposition: form-data; name=\"">> \o name \o <<"\"; filename=\"">>
        \o file.name \o <<"\"\\r\\n">>

ContentType(file) == <<"Content-Type: ">> \o file.type \o <<"\\r\\n\\r\\n">>

CRLF == <<"\\r\\n">>

ClosingLine(b) == <<"--">> \o b \o <<"--\\r\\n">>

\* a variant: the strings are measured by their length, not by their bytes
computeMultipartSizeByLength(entries, b) ==
    SumOf([i \in 1..Len(entries) |->
              Utf16Length(BoundaryLine(b))
                + Utf16Length(ContentDisposition(entries[i].name, entries[i].file))
                + Utf16Length(ContentType(entries[i].file))
                + SizeOf(entries[i].file)
                + Utf16Length(CRLF)])
        + Utf16Length(ClosingLine(b))

\* computeMultipartSize(entries, boundary): what its loop adds up for each
\* entry, and the final boundary
computeMultipartSize(entries, b) ==
    SumOf([i \in 1..Len(entries) |->
              Utf8Length(BoundaryLine(b))
                + Utf8Length(ContentDisposition(entries[i].name, entries[i].file))
                + Utf8Length(ContentType(entries[i].file))
                + SizeOf(entries[i].file)
                + Utf8Length(CRLF)])
        + Utf8Length(ClosingLine(b))

\* what the stream enqueues for a string the generator yields: its bytes
Encoded(entry, kind, string) ==
    [of |-> entry, kind |-> kind, text |-> string, size |-> Utf8Length(string)]

\* what the stream enqueues for a chunk of a file
FileChunk(entry, size) == [of |-> entry, kind |-> "content", text |-> <<>>, size |-> size]

EncodeInit ==
    /\ MonitorIdle /\ AuthInit /\ UploadInit /\ BuilderIdle /\ RequestIdle
    /\ policy = NoAcl
    /\ document = NoDocument
    /\ parts \in EntryLists(MaxParts)
    /\ boundary \in Boundaries
    /\ at = NotStarted
    /\ chunks = <<>>
    /\ declared = 0

\* the position of the generator at the head of its loop over the entries
\* from entry i on
LoopOver(i) ==
    IF i <= Len(parts) THEN [entry |-> i, step |-> "boundary", read |-> 0]
    ELSE [entry |-> i, step |-> "closing", read |-> 0]

\* createMultipartRequestInit with streaming supported: the stream is made
\* and the Content-Length computed
CreateMultipartRequestInit ==
    /\ at = NotStarted
    /\ declared' = computeMultipartSize(parts, boundary)
    /\ at' = LoopOver(1)
    /\ UNCHANGED <<policy, document, parts, boundary, chunks, mvars, avars, uvars, bvars, rvars>>

\* yield `--${boundary}\r\n`
YieldBoundary ==
    /\ at.step = "boundary"
    /\ chunks' = Append(chunks, Encoded(at.entry, "boundary", BoundaryLine(boundary)))
    /\ at' = [at EXCEPT !.step = "disposition"]
    /\ UNCHANGED <<policy, document, parts, boundary, declared, mvars, avars, uvars, bvars, rvars>>

\* yield the Content-Disposition header
YieldContentDisposition ==
    /\ at.step = "disposition"
    /\ chunks' = Append(chunks,
                        Encoded(at.entry, "disposition",
                                ContentDisposition(parts[at.entry].name, parts[at.entry].file)))
    /\ at' = [at EXCEPT !.step = "type"]
    /\ UNCHANGED <<policy, document, parts, boundary, declared, mvars, avars, uvars, bvars, rvars>>

\* yield the Content-Type header; the reader of the file is made
YieldContentType ==
    /\ at.step = "type"
    /\ chunks' = Append(chunks, Encoded(at.entry, "type", ContentType(parts[at.entry].file)))
    /\ at' = [at EXCEPT !.step = "content", !.read = 0]
    /\ UNCHANGED <<policy, document, parts, boundary, declared, mvars, avars, uvars, bvars, rvars>>

\* reader.read() resolves with a chunk: it is yielded
YieldChunk ==
    /\ at.step = "content"
    /\ at.read < Len(parts[at.entry].file.content)
    /\ chunks' = Append(chunks, FileChunk(at.entry, parts[at.entry].file.content[at.read + 1]))
    /\ at' = [at EXCEPT !.read = @ + 1]
    /\ UNCHANGED <<policy, document, parts, boundary, declared, mvars, avars, uvars, bvars, rvars>>

\* a slip: the closing boundary is yielded after every part
YieldCRLFClosesEachPart ==
    /\ at.step = "content"
    /\ at.read = Len(parts[at.entry].file.content)
    /\ chunks' = chunks \o << Encoded(at.entry, "crlf", CRLF),
                               Encoded(0, "closing", ClosingLine(boundary)) >>
    /\ at' = LoopOver(at.entry + 1)
    /\ UNCHANGED <<policy, document, parts, boundary, declared, mvars, avars, uvars, bvars, rvars>>

\* reader.read() resolves done: '\r\n' is yielded and the loop goes on
YieldCRLF ==
    /\ at.step = "content"
    /\ at.read = Len(parts[at.entry].file.content)
    /\ chunks' = Append(chunks, Encoded(at.entry, "crlf", CRLF))
    /\ at' = LoopOver(at.entry + 1)
    /\ UNCHANGED <<policy, document, parts, boundary, declared, mvars, avars, uvars, bvars, rvars>>

\* yield `--${boundary}--\r\n`: the closing line is enqueued, and start()
\* awaits the generator again, the stream still open
YieldClosing ==
    /\ at.step = "closing"
    /\ chunks' = Append(chunks, Encoded(0, "closing", ClosingLine(boundary)))
    /\ at' = [at EXCEPT !.step = "returning"]
    /\ UNCHANGED <<policy, document, parts, boundary, declared, mvars, avars, uvars, bvars, rvars>>

\* the generator returns, the loop of start() ends: controller.close()
ControllerClose ==
    /\ at.step = "returning"
    /\ at' = [at EXCEPT !.step = "closed"]
    /\ UNCHANGED <<policy, document, parts, boundary, chunks, declared, mvars, avars, uvars,
                   bvars, rvars>>

EncodeNext ==
    \/ CreateMultipartRequestInit
    \/ YieldBoundary
    \/ YieldContentDisposition
    \/ YieldContentType
    \/ YieldChunk
    \/ YieldCRLF
    \/ YieldClosing
    \/ ControllerClose

\* the streaming encoding of multipart bodies alone
EncodeSpec == EncodeInit /\ [][EncodeNext]_vars

(***************************************************************************)
(* createMultipartRequestInit: the probe of the runtime and the choice of  *)
(* the encoding.                                                           *)
(***************************************************************************)
\* what a runtime makes of fetch(request.clone()) and request.text() for a
\* Request whose body is a stream of the one byte 0: it reads the byte, its
\* fetch throws, or it takes the stream for a string
Runtimes == {"native", "request throws", "fetch throws", "stringifies"}

\* request.text() of the probe
ProbeText(rt) ==
    IF rt = "native" THEN <<"\\x00">> ELSE <<"[object ReadableStream]">>

\* new Request(.., {body: testStream}) throwing
ProbeRequestError ==
    [name |-> "TypeError", message |-> <<"Request with a body: duplex">>, cause |-> NoCause]

\* the try block of detectStreamSupport: what it throws, making the Request
\* or fetching its clone, and the text of the body it reads when it does not
Probe(rt) ==
    [threw |-> CASE rt = "request throws" -> ProbeRequestError
                 [] rt = "fetch throws" -> FetchError
                 [] OTHER -> NoError,
     text |-> ProbeText(rt)]

\* a slip: what the probe throws is not caught
detectStreamSupportWithoutCatch(rt) ==
    LET probe == Probe(rt) IN
    IF probe.threw /= NoError
    THEN [value |-> FALSE, error |-> probe.threw]
    ELSE [value |-> probe.text = <<"\\x00">>, error |-> NoError]

\* detectStreamSupport(): false in the catch, else body === '\x00'; error is
\* what the promise rejects with
detectStreamSupport(rt) ==
    LET probe == Probe(rt) IN
    IF probe.threw /= NoError
    THEN [value |-> FALSE, error |-> NoError]
    ELSE [value |-> probe.text = <<"\\x00">>, error |-> NoError]

\* a slip: the file is appended without its name
createFormDataWithoutFilename(entries) ==
    [kind |-> "FormData", boundary |-> <<>>,
     parts |-> [i \in 1..Len(entries) |->
                   [name |-> entries[i].name, value |-> entries[i].file,
                    filename |-> <<"blob">>]]]

\* createFormData(entries): formData.append(name, file, file.name) for each
createFormData(entries) ==
    [kind |-> "FormData", boundary |-> <<>>,
     parts |-> [i \in 1..Len(entries) |->
                   [name |-> entries[i].name, value |-> entries[i].file,
                    filename |-> entries[i].file.name]]]

\* createMultipartStream(entries): the stream over the entries, which
\* multipartStream encodes as it is read, and its boundary
createMultipartStream(entries, b) ==
    [kind |-> "stream", boundary |-> b, parts |-> entries]

\* the RequestInit createMultipartRequestInit resolves with
RequestInitOf(method, entries, supported, b) ==
    IF supported
    THEN [method |-> method,
          contentType |-> <<"multipart/form-data; boundary=">> \o b,
          contentLength |-> computeMultipartSize(entries, b),
          duplex |-> "half",
          body |-> createMultipartStream(entries, b)]
    ELSE [NoInit EXCEPT !.method = method, !.body = createFormData(entries)]

RequestInit ==
    /\ MonitorIdle /\ AuthInit /\ UploadInit /\ BuilderIdle
    /\ policy = NoAcl
    /\ document = NoDocument
    /\ parts = <<>>
    /\ boundary = <<>>
    /\ at = NotStarted
    /\ chunks = <<>>
    /\ declared = 0
    /\ runtime \in Runtimes
    /\ inits = [r \in Requests |-> NewRequest]
    /\ probes = [begun |-> 0, completed |-> 0]

\* createMultipartRequestInit(method, entries) is called: detectStreamSupport
\* runs up to its await of fetch
CreateMultipartRequestInitCalled(r, method, entries) ==
    /\ inits[r].pc = "idle"
    /\ inits' = [inits EXCEPT ![r] =
           [@ EXCEPT !.pc = "probing", !.method = method, !.entries = entries,
                     !.after = probes.completed]]
    /\ probes' = [probes EXCEPT !.begun = @ + 1]
    /\ UNCHANGED <<runtime, exceptRequest>>

\* detectStreamSupport settles: the RequestInit is made, with a stream or
\* with a FormData; were it to reject, so would createMultipartRequestInit
DetectStreamSupportResolved(r) ==
    /\ inits[r].pc = "probing"
    /\ \E b \in Boundaries :
        LET probed == detectStreamSupport(runtime)
            supported == probed.value IN
        /\ ~supported => b = <<"----WebKitFormBoundary">>
        /\ inits' = [inits EXCEPT ![r] =
               IF probed.error /= NoError
               THEN [@ EXCEPT !.pc = "threw", !.error = probed.error]
               ELSE [@ EXCEPT !.pc = "made", !.supported = supported,
                              !.init = RequestInitOf(inits[r].method, inits[r].entries,
                                                     supported, b)]]
    /\ probes' = [probes EXCEPT !.completed = @ + 1]
    /\ UNCHANGED <<runtime, exceptRequest>>

RequestNext ==
    \E r \in Requests :
        \/ \E method \in {"POST", "PUT"}, entries \in EntryLists(MaxParts) :
               CreateMultipartRequestInitCalled(r, method, entries)
        \/ DetectStreamSupportResolved(r)

\* the multipart requests of a process alone
RequestSpec == RequestInit /\ [][RequestNext]_vars

\* nothing is being serialized or encoded
PureIdle ==
    /\ policy = NoAcl
    /\ document = NoDocument
    /\ parts = <<>>
    /\ boundary = <<>>
    /\ at = NotStarted
    /\ chunks = <<>>
    /\ declared = 0
    /\ BuilderIdle
    /\ RequestIdle

Init == MonitorInit /\ AuthInit /\ UploadInit /\ PureIdle

\* no wait for propagation is under way
AuthOnlyInit == MonitorIdle /\ AuthInit /\ UploadInit /\ PureIdle

\* the client at rest
IdleInit == MonitorIdle /\ AuthInit /\ UploadInit /\ PureIdle

\* the propagation monitor alone
MonitorSpec == Init /\ [][MonitorNext]_vars

\* delete and editFile alone
AuthSpec == AuthOnlyInit /\ [][AuthNext]_vars

\* the allocator and the uploads alone
UploadSpec == IdleInit /\ [][UploadNext]_vars

\* no operation of the client is under way
Resting ==
    /\ \A c \in Calls : calls[c].pc = "idle"
    /\ \A u \in Uploads : ups[u].pc = "idle"
    /\ mpc = "idle"

\* the client runs one operation, any of its uploads or editFile, updateJson
\* or delete, from the call to its end
FacadeNext ==
    \/ Resting /\ \E options \in UploadAclOptions : UploadFile("u1", options)
    \/ Resting /\ \E options \in UploadAclOptions : UploadAsJson("u1", options)
    \/ Resting /\ \E n \in 0..MaxFiles, index \in IndexOptions, options \in UploadAclOptions :
                      UploadFolder("u1", n, index, options)
    \/ Resting /\ EditFile("c1")
    \/ Resting /\ UpdateJson("c1")
    \/ Resting /\ Delete("c1")
    \/ LinkNewAnswered("u1")
    \/ LinkNewRefused("u1")
    \/ \E streaming \in BOOLEAN : SendCreate("u1", streaming)
    \/ CreateAnswered("u1")
    \/ CreateRefused("u1")
    \/ ImmutableAnswered("u1")
    \/ ImmutableRefused("u1")
    \/ ChallengeIssued("c1")
    \/ ChallengeRefused("c1")
    \/ Signed("c1")
    \/ SignerRejects("c1")
    \/ ChallengeAccepted("c1")
    \/ ChallengeRejected("c1")
    \/ SendUpdate("c1")
    \/ DeleteAnswered("c1")
    \/ UpdateAnswered("c1")
    \/ UpdateRefused("c1")
    \/ MutationFetchFails("c1")

\* one public operation at a time
FacadeSpec == IdleInit /\ [][FacadeNext]_vars

\* the client runs one operation, any of those of the facade, resolve, status
\* or the wait for the propagation of a resource, from the call to its end
ClientNext ==
    \/ FacadeNext
    \/ Resting /\ Resolve("c1")
    \/ Resting /\ Status("c1")
    \/ StatusAnswered("c1")
    \/ StatusRefused("c1")
    \/ Resting /\ WaitForPropagation
    \/ StatusAnswer
    \/ StatusFailure
    \/ DelayElapsed
    \/ Tick

\* one operation of the client at a time
ClientSpec == IdleInit /\ [][ClientNext]_vars

Next ==
    \/ ClientNext
    \/ MonitorNext \/ AuthNext \/ UploadNext \/ FacadeNext \/ CreateAclEntry \/ EncodeNext
    \/ BuilderNext \/ RequestNext

Spec == Init /\ [][Next]_vars

\* two uploads are in flight together: each is called once, and their
\* continuations run in any order
ConcurrentNext ==
    \E u \in Uploads :
        \/ \E options \in UploadAclOptions : UploadFile(u, options)
        \/ \E n \in 1..MaxFiles, index \in {"absent", "true"}, options \in AclOptions :
               UploadFolder(u, n, index, options)
        \/ LinkNewAnswered(u)
        \/ LinkNewRefused(u)
        \/ SendCreate(u, TRUE)
        \/ CreateAnswered(u)
        \/ CreateRefused(u)
        \/ ImmutableAnswered(u)
        \/ ImmutableRefused(u)

ConcurrentSpec == IdleInit /\ [][ConcurrentNext]_vars

\* the scheduler runs every continuation that is ready, the backend answers
\* every status query, and time passes
FairMonitorSpec ==
    /\ MonitorSpec
    /\ WF_vars(WaitForPropagation)
    /\ WF_vars(StatusAnswer \/ StatusFailure)
    /\ WF_vars(DelayElapsed)
    /\ WF_vars(Tick)

(***************************************************************************)
(* Propagation Monitor: properties.                                        *)
(***************************************************************************)
Elapsed == now - startedAt

TimeoutError == StorageClientErrorFromString(TimeoutMessage(resource.uri))

TimedOut == mpc = "failed" /\ merror = TimeoutError

\* query, wait, query, ..., query: k waits between k + 1 queries
QueryWaitTrace(k) ==
    [i \in 1..(2 * k + 1) |-> IF i % 2 = 1 THEN "query" ELSE "wait"]

\* C1: once a status query has answered error_upload, error_edit,
\* error_delete or unauthorized, the wait has failed with an error whose
\* message embeds that status, and the answered query is the last thing the
\* wait did: no query and no pacing wait follows it.  With unauthorized as
\* first status exactly one query was made.
C1_ErrorStatusFailsAtOnce ==
    lastStatus \in ErrorStatuses =>
        /\ mpc = "failed"
        /\ merror.name = "StorageClientError"
        /\ merror.message = StatusErrorMessage(resource.storageKey, lastStatus)
        /\ \E i \in 1..Len(merror.message) : merror.message[i] = lastStatus
        /\ queries = pending + 1
        /\ waits = pending
        /\ mtrace = QueryWaitTrace(pending)
        /\ (lastStatus = "unauthorized" /\ pending = 0) => queries = 1 /\ waits = 0

C1_Witness ==
    /\ lastStatus = "unauthorized"
    /\ pending = 0
    /\ mpc = "failed"

\* C2 as stated: k non-terminal answers followed by done, k polling
\* intervals being shorter than the timeout, always end in success after
\* k + 1 queries and k waits (so the wait never times out after k answers
\* with k intervals shorter than the timeout), and [pending, pending, done]
\* succeeds before the timeout.
C2_Original ==
    /\ mpc = "succeeded" =>
        /\ lastStatus = "done"
        /\ queries = pending + 1
        /\ waits = pending
        /\ mtrace = QueryWaitTrace(pending)
        /\ Elapsed >= pending * env.propagationPollingInterval
        /\ pending = 2 => Elapsed < env.propagationTimeout
    /\ TimedOut => ~(pending * env.propagationPollingInterval < env.propagationTimeout)

\* C2 amended: the wait succeeds only on done, after exactly k + 1 queries
\* separated by exactly k waits when k non-terminal statuses came first, no
\* earlier than k polling intervals after its start, the last query having
\* been sent before the timeout; and it gives up with the timeout error only
\* when the elapsed time, round trips and late timers included, has reached
\* the timeout at the head of the loop.
C2_SucceedsAfterKWaits ==
    /\ mpc = "succeeded" =>
        /\ lastStatus = "done"
        /\ queries = pending + 1
        /\ waits = pending
        /\ mtrace = QueryWaitTrace(pending)
        /\ Elapsed >= pending * env.propagationPollingInterval
        /\ sentAt - startedAt < env.propagationTimeout
    /\ TimedOut =>
        /\ Elapsed >= env.propagationTimeout
        /\ queries = pending
        /\ waits = pending

C2_Witness ==
    /\ mpc = "succeeded"
    /\ pending = 2
    /\ lastStatus = "done"
    /\ Elapsed = 2 * env.propagationPollingInterval

\* C3: the wait always terminates; and when it has ended without the backend
\* ever having reported a terminal status (and without a failed query), it has
\* failed, with the timeout error naming the resource's URI, the elapsed time
\* having reached the timeout.
C3_TimesOut ==
    /\ <>(mpc \in {"succeeded", "failed"})
    /\ []((mpc \in {"succeeded", "failed"} /\ lastStatus \in PendingStatuses \cup {"none"}) =>
            /\ mpc = "failed"
            /\ merror = StorageClientErrorFromString(
                   <<"Timeout waiting for ", "lens", "://", "k1", " to be persisted.">>)
            /\ Elapsed >= env.propagationTimeout)

C3_Witness ==
    /\ TimedOut
    /\ pending >= 2
    /\ lastStatus \in PendingStatuses

\* C4: once a status query has failed (fetch rejected, response not ok, body
\* not decodable) the wait has failed with an error made from the query's
\* error, and the failed query is the last one: no wait and no query follows.
C4_FailedQueryEndsWait ==
    lastStatus \in StatusFailures =>
        /\ mpc = "failed"
        /\ \E body \in FailureBodies(lastStatus) :
               merror = StorageClientErrorFromError(StatusQueryError(lastStatus, body))
        /\ merror.name = "StorageClientError"
        /\ lastStatus = "not_ok" =>
               merror.message \in {<<"denied">>, <<>>, <<"null">>, <<"Bad Gateway">>}
        /\ lastStatus = "no_body" => merror.message = <<>>
        /\ lastStatus = "rejected" =>
               merror.message = <<"fetch failed", " due to ", "ECONNREFUSED">>
        /\ lastStatus = "bad_json" =>
               merror.message = <<"Body is unusable: Body has already been read">>
        /\ merror /= TimeoutError
        /\ queries = pending + 1
        /\ waits = pending
        /\ mtrace = QueryWaitTrace(pending)

C4_Witness ==
    /\ lastStatus = "not_ok"
    /\ mpc = "failed"
    /\ pending = 1

\* C5 as stated: the monitor is never suspended in a pacing wait once the
\* timeout has expired.
C5_Original ==
    ~(mpc = "delay" /\ Elapsed >= env.propagationTimeout)

\* C5 amended: the timeout does not cut a pacing wait short.  The timeout is
\* looked at only when a wait has run its whole polling interval: a query
\* that follows a wait is sent no earlier than the wait's due time, and a
\* timeout error that follows a wait is raised no earlier than that, without a
\* further query.
C5_WaitRunsFullInterval ==
    /\ (mpc = "status" /\ waits > 0) => sentAt >= wakeAt
    /\ (TimedOut /\ waits > 0) =>
        /\ now >= wakeAt
        /\ Elapsed >= env.propagationTimeout
        /\ queries = waits
    /\ mpc = "delay" => queries = waits

C5_Witness ==
    /\ TimedOut
    /\ waits > 0
    /\ wakeAt - env.propagationPollingInterval - startedAt < env.propagationTimeout
    /\ wakeAt - startedAt > env.propagationTimeout

(***************************************************************************)
(* Authorization Service, delete and editFile: properties.                 *)
(***************************************************************************)
IsPrefix(p, q) == Len(p) <= Len(q) /\ SubSeq(q, 1, Len(p)) = p

\* what a call has done, in order: the kinds of its requests and the call of
\* the signer
Steps(c) == [i \in 1..Len(calls[c].sent) |-> calls[c].sent[i].type]

AuthorizeSteps == <<"challenge/new", "signMessage", "challenge/sign">>

MutationOf(op) == IF op = "delete" THEN "DELETE" ELSE "PUT"

Mutations == {"DELETE", "PUT"}

\* the storage key a reference names
ReferencedKey(arg) ==
    CHOOSE k \in StorageKeys : arg = k \/ arg = <<"lens", "://">> \o k

\* the requests and signer calls of all the calls
Sent == {<<c, i>> \in Calls \X (1..4) : i <= Len(calls[c].sent)}

\* C6: what a call has done is always a beginning of challenge/new,
\* signMessage, challenge/sign (then the mutating request), each at most once
\* and in this order; a step is there only if the one before it succeeded;
\* and a call that failed in one of the three steps went no further, holds
\* no authorization and sent no mutating request.
C6_AuthorizeStepsInOrder ==
    \A c \in Calls :
        LET call == calls[c] IN
        /\ IsPrefix(Steps(c), AuthorizeSteps \o <<MutationOf(call.op)>>)
        /\ Len(call.sent) >= 2 => call.challenge \in {ChallengeNo(n) : n \in 1..issued}
        /\ Len(call.sent) >= 3 => call.signature /= <<>>
        /\ call.authorization /= NoAuthorization => IsPrefix(AuthorizeSteps, Steps(c))
        /\ call.pc = "challenge/new" => Steps(c) = SubSeq(AuthorizeSteps, 1, 1)
        /\ call.pc = "signMessage" => Steps(c) = SubSeq(AuthorizeSteps, 1, 2)
        /\ call.pc = "challenge/sign" => Steps(c) = AuthorizeSteps
        /\ (call.pc = "threw" /\ call.challenge = NoChallenge) =>
               Steps(c) = SubSeq(AuthorizeSteps, 1, 1) /\ call.authorization = NoAuthorization
        /\ (call.pc = "threw" /\ call.error = SignerError) =>
               Steps(c) = SubSeq(AuthorizeSteps, 1, 2) /\ call.authorization = NoAuthorization
        /\ (call.pc = "threw" /\ call.authorization = NoAuthorization) =>
               /\ IsPrefix(Steps(c), AuthorizeSteps)
               /\ call.result = NoResource
               /\ ~call.success

C6_Witness ==
    \E c \in Calls :
        /\ calls[c].pc = "threw"
        /\ calls[c].error = SignerError
        /\ Steps(c) = <<"challenge/new", "signMessage">>

\* C7: the signer is given the message of the challenge that challenge/new
\* returned to this call, never its secret_random; and challenge/sign is sent
\* that message, that secret_random and the signature the signer made of the
\* message.
C7_SignsChallengeMessage ==
    \A c \in Calls :
        LET call == calls[c] IN
        /\ Len(call.sent) >= 2 =>
            /\ call.sent[2].type = "signMessage"
            /\ call.sent[2].message = call.challenge.message
            /\ call.sent[2].message /= call.challenge.secret_random
            /\ call.sent[2].message[1] = "msg-"
        /\ Len(call.sent) >= 3 =>
            /\ call.sent[3].type = "challenge/sign"
            /\ call.sent[3].message = call.challenge.message
            /\ call.sent[3].secret_random = call.challenge.secret_random
            /\ call.sent[3].signature = call.signature
            /\ call.sent[3].signature = SignatureOf(call.challenge.message)

C7_Witness ==
    \E c \in Calls :
        /\ Len(calls[c].sent) >= 3
        /\ calls[c].challenge = ChallengeNo(2)
        /\ calls[c].sent[3].signature = <<"sig(", "msg-", "2", ")">>

\* C8: a DELETE or PUT request is the fourth thing a call does, after
\* challenge/new, signMessage and challenge/sign have succeeded; DELETE is
\* sent by delete and PUT by editFile; it addresses the key the caller's
\* reference names, its challenge_cid is the id challenge/sign returned to
\* this call and its secret_random the secret challenge/new returned to it.
C8_MutationCarriesAuthorization ==
    \A c \in Calls :
        LET call == calls[c] IN
        \A i \in 1..Len(call.sent) :
            call.sent[i].type \in Mutations =>
                /\ i = 4
                /\ SubSeq(Steps(c), 1, 3) = AuthorizeSteps
                /\ call.sent[i].type = MutationOf(call.op)
                /\ call.sent[i].storage_key = ReferencedKey(call.arg)
                /\ call.sent[1].storage_key = ReferencedKey(call.arg)
                /\ call.sent[1].action = (IF call.op = "delete" THEN "delete" ELSE "edit")
                /\ call.sent[i].challenge_cid = call.authorization.challengeId
                /\ call.sent[i].challenge_cid \in {ChallengeCid(m) : m \in 1..accepted}
                /\ call.sent[i].secret_random = call.challenge.secret_random
                /\ call.sent[i].secret_random = call.sent[3].secret_random
                /\ call.sent[i].secret_random[1] = "secret-"

C8_Witness ==
    \E c, d \in Calls :
        /\ calls[c].op = "delete"
        /\ calls[c].arg = <<"lens", "://", "k2">>
        /\ calls[c].pc = "returned"
        /\ calls[d].op = "editFile"
        /\ calls[d].pc = "returned"

\* C9: every call of delete or editFile sends its own challenge/new, and its
\* own challenge/sign before its mutating request: as many challenge/new
\* requests have been sent as calls were made; and the secret and the
\* challenge id a call obtained are in no request of another call.
C9_NoChallengeReuse ==
    /\ \A c \in Calls :
        /\ calls[c].pc /= "idle" =>
            /\ Len(calls[c].sent) >= 1
            /\ calls[c].sent[1].type = "challenge/new"
        /\ \A i \in 1..Len(calls[c].sent) :
            calls[c].sent[i].type \in Mutations =>
                \E j \in 1..(i - 1) : calls[c].sent[j].type = "challenge/sign"
    /\ Cardinality({x \in Sent : calls[x[1]].sent[x[2]].type = "challenge/new"})
          = Cardinality({c \in Calls : calls[c].pc /= "idle"})
    /\ \A c, d \in Calls :
        c /= d =>
            \A i \in 1..Len(calls[d].sent) :
                LET r == calls[d].sent[i] IN
                /\ r.secret_random /= <<>> => r.secret_random /= calls[c].challenge.secret_random
                /\ r.challenge_cid /= <<>> => r.challenge_cid /= calls[c].authorization.challengeId
                /\ r.message /= <<>> => r.message /= calls[c].challenge.message

C9_Witness ==
    /\ \A c \in Calls : calls[c].pc = "returned" /\ calls[c].storageKey = <<"k1">>
    /\ \E c \in Calls : calls[c].op = "delete"
    /\ issued = 2

\* C10: a call whose challenge/new or challenge/sign request was answered
\* with a response that is not ok has failed with an AuthorizationError (not
\* a StorageClientError) whose message is the message field of a JSON body
\* and the text of a body that is no JSON, and has sent no PUT and no DELETE.
C10_RefusedChallengeIsAuthorizationError ==
    \A c \in Calls :
        LET call == calls[c] IN
        call.refused.at \in {"challenge/new", "challenge/sign"} =>
            /\ call.pc = "threw"
            /\ call.error.name = "AuthorizationError"
            /\ call.error.name /= StorageClientErrorFromResponse(call.refused.body).name
            /\ (call.refused.body.json /\ call.refused.body.hasMessage) =>
                   call.error.message = call.refused.body.message
            /\ (~call.refused.body.json \/ call.refused.body.isNull) =>
                   call.error.message = call.refused.body.text
            /\ \A i \in 1..Len(call.sent) : call.sent[i].type \notin Mutations
            /\ call.authorization = NoAuthorization

C10_Witness ==
    \E c \in Calls :
        /\ calls[c].refused.at = "challenge/sign"
        /\ calls[c].refused.body.json
        /\ calls[c].error.message = <<"denied">>
        /\ calls[c].op = "editFile"

\* C11: a call whose signer rejected has failed with the signer's own error,
\* not an AuthorizationError or a StorageClientError made from it, and has
\* sent neither the challenge/sign request nor a DELETE or PUT request.
C11_SignerErrorPropagates ==
    \A c \in Calls :
        LET call == calls[c] IN
        (/\ call.pc = "threw"
         /\ Len(call.sent) >= 1
         /\ call.sent[Len(call.sent)].type = "signMessage") =>
            /\ call.error = SignerError
            /\ call.error.name \notin {"AuthorizationError", "StorageClientError"}
            /\ Steps(c) = <<"challenge/new", "signMessage">>
            /\ call.signature = <<>>
            /\ call.authorization = NoAuthorization
            /\ call.refused = NotRefused

C11_Witness ==
    \E c \in Calls :
        /\ calls[c].op = "editFile"
        /\ calls[c].pc = "threw"
        /\ calls[c].error = SignerError
        /\ Steps(c) = <<"challenge/new", "signMessage">>

\* the action for which a mutating request needs a challenge
ActionOf(type) == IF type = "DELETE" THEN "delete" ELSE "edit"

\* the mutating requests sent so far, by call and position
MutationsSent == {x \in Sent : calls[x[1]].sent[x[2]].type \in Mutations}

\* C12: under every interleaving of two calls, each challenge id the backend
\* gave out is in at most one mutating request; a mutating request has the
\* storage key and the action of the challenge/new request of its own call
\* and carries the challenge id and the secret that call obtained; and no
\* mutating request carries the challenge id or the secret of another call.
C12_AuthorizationUsedOnceInScope ==
    /\ \A m \in 1..accepted :
           Cardinality({x \in MutationsSent :
                           calls[x[1]].sent[x[2]].challenge_cid = ChallengeCid(m)}) <= 1
    /\ \A x \in MutationsSent :
           LET call == calls[x[1]]
               r == call.sent[x[2]]
               asked == call.sent[1] IN
           /\ asked.type = "challenge/new"
           /\ r.storage_key = asked.storage_key
           /\ asked.action = ActionOf(r.type)
           /\ r.type = MutationOf(call.op)
           /\ r.challenge_cid = call.authorization.challengeId
           /\ r.secret_random = call.challenge.secret_random
           /\ Cardinality({y \in MutationsSent : y[1] = x[1]}) = 1
           /\ \A d \in Calls \ {x[1]} :
                  /\ r.challenge_cid /= calls[d].authorization.challengeId
                  /\ r.secret_random /= calls[d].challenge.secret_random

C12_Witness ==
    /\ calls["c1"].op = "editFile" /\ calls["c1"].pc = "PUT"
    /\ calls["c2"].op = "delete" /\ calls["c2"].pc = "DELETE"
    /\ calls["c1"].storageKey = calls["c2"].storageKey
    /\ calls["c1"].authorization.challengeId = ChallengeCid(1)
    /\ calls["c2"].authorization.challengeId = ChallengeCid(2)
    /\ calls["c1"].challenge = ChallengeNo(2)

(***************************************************************************)
(* Resource Allocator and uploads: properties.                             *)
(***************************************************************************)
\* C13: a call of allocateStorage with an amount of 0 or less has failed with
\* the InvariantError of its check and nothing was sent: no link/new request
\* and no other request, and the backend has given out no key for it.
C13_NonPositiveAmountFailsLocally ==
    \A u \in Uploads :
        LET upload == ups[u] IN
        (upload.allocation /= "none" /\ upload.amount <= 0) =>
            /\ upload.pc = "threw"
            /\ upload.allocation = "rejected"
            /\ upload.error.name = "InvariantError"
            /\ upload.error.message = <<"Amount must be greater than 0">>
            /\ upload.sent = <<>>
            /\ ~upload.answered
            /\ upload.allocations = <<>>
            /\ upload.result = <<>>

C13_Witness ==
    \E u \in Uploads :
        /\ ups[u].op = "allocateStorage"
        /\ ups[u].amount = 0
        /\ ups[u].pc = "threw"
        /\ ups[u].error.name = "InvariantError"
        /\ minted = 0

\* the resource is made of one storage key
DerivedFromOwnKey(r) ==
    /\ r.uri = <<"lens", "://">> \o r.storageKey
    /\ r.gatewayUrl = Backend \o <<"/">> \o r.storageKey

PairwiseDistinctKeys(resources) ==
    \A i, j \in 1..Len(resources) :
        i /= j => resources[i].storageKey /= resources[j].storageKey

\* the list has the records link/new is to answer a request for amount keys
\* with: amount records, each with a key of its own and the URI of that key
HonoursRequest(list, amount) ==
    /\ Len(list) = amount
    /\ \A i \in 1..Len(list) :
        /\ list[i].hasKey /\ list[i].hasUri
        /\ list[i].uri = <<"lens", "://">> \o list[i].storage_key
        /\ \A j \in 1..Len(list) : i /= j => list[i].storage_key /= list[j].storage_key

\* C14 as stated: an allocation of amount >= 1 that returned has returned
\* exactly amount resources with pairwise distinct storage keys, the uri and
\* the gatewayUrl of each made of its own storage key.
C14_Original ==
    \A u \in Uploads :
        (ups[u].allocation = "fulfilled" /\ ups[u].amount >= 1) =>
            /\ Len(ups[u].allocations) = ups[u].amount
            /\ PairwiseDistinctKeys(ups[u].allocations)
            /\ \A i \in 1..Len(ups[u].allocations) : DerivedFromOwnKey(ups[u].allocations[i])

\* C14: an allocation that returned asked link/new for amount keys once and
\* has returned one resource for each record of the answer, in the order of
\* the answer: storage key and uri are those of the record, the gatewayUrl
\* is made of the storage key. So it returned amount resources with distinct
\* keys and the uri of their own key when the answer has amount records with
\* distinct keys, each with the uri of its key.
C14_AllocationReturnsTheRecords ==
    \A u \in Uploads :
        LET upload == ups[u] IN
        upload.allocation = "fulfilled" =>
            /\ upload.amount >= 1
            /\ upload.sent[1] = LinkNewRequest(upload.amount)
            /\ Cardinality({i \in 1..Len(upload.sent) : upload.sent[i].type = "link/new"}) = 1
            /\ Len(upload.allocations) = Len(upload.response)
            /\ \A i \in 1..Len(upload.allocations) :
                /\ upload.allocations[i].storageKey = upload.response[i].storage_key
                /\ upload.allocations[i].uri = upload.response[i].uri
                /\ upload.allocations[i].gatewayUrl
                      = Backend \o <<"/">> \o upload.allocations[i].storageKey
            /\ HonoursRequest(upload.response, upload.amount) =>
                /\ Len(upload.allocations) = upload.amount
                /\ PairwiseDistinctKeys(upload.allocations)
                /\ \A i \in 1..Len(upload.allocations) :
                       DerivedFromOwnKey(upload.allocations[i])

C14_Witness ==
    \E u \in Uploads :
        /\ ups[u].op = "allocateStorage"
        /\ ups[u].pc = "returned"
        /\ ups[u].amount = 2
        /\ HonoursRequest(ups[u].response, 2)
        /\ Len(ups[u].result) = 2
        /\ ups[u].result[1].storageKey /= ups[u].result[2].storageKey

\* the operations that return a resource made by resourceFrom
Edits == {"editFile", "updateJson"}

\* C15 as stated: every resource an upload, editFile or updateJson returned
\* has the uri lens://storageKey and the gatewayUrl backend/storageKey.
C15_Original ==
    /\ \A u \in Uploads :
        (ups[u].pc = "returned" /\ ups[u].op /= "allocateStorage") =>
            \A i \in 1..Len(ups[u].result) : DerivedFromOwnKey(ups[u].result[i])
    /\ \A c \in Calls :
        (calls[c].pc = "returned" /\ calls[c].op \in Edits) =>
            DerivedFromOwnKey(calls[c].result)

\* C15: every resource returned has the gatewayUrl backend/storageKey. The
\* resource of editFile and updateJson has the uri lens://storageKey, for the
\* key the caller referred to. A resource of an upload has the storage key
\* and the uri of one and the same record of the backend's answer: its uri
\* is lens://storageKey when the record's is.
C15_GatewayOfKeyUriOfRecord ==
    /\ \A u \in Uploads :
        (ups[u].pc = "returned" /\ ups[u].op /= "allocateStorage") =>
            /\ Len(ups[u].result) >= 1
            /\ Len(ups[u].result) <= Len(ups[u].response)
            /\ \A i \in 1..Len(ups[u].result) :
                LET r == ups[u].result[i]
                    record == ups[u].response[i] IN
                /\ r.gatewayUrl = Backend \o <<"/">> \o r.storageKey
                /\ r.storageKey = record.storage_key
                /\ r.uri = record.uri
                /\ record.uri = <<"lens", "://">> \o record.storage_key =>
                       DerivedFromOwnKey(r)
    /\ \A c \in Calls :
        (calls[c].pc = "returned" /\ calls[c].op \in Edits) =>
            /\ DerivedFromOwnKey(calls[c].result)
            /\ calls[c].arg \in {calls[c].result.storageKey, calls[c].result.uri}

C15_Witness ==
    /\ ups["u1"].op = "uploadFolder"
    /\ ups["u1"].pc = "returned"
    /\ Len(ups["u1"].result) = 3
    /\ DerivedFromOwnKey(ups["u1"].result[1])
    /\ ups["u1"].result[3].uri = <<"lens", "://", "elsewhere">>
    /\ ups["u1"].result[3].storageKey = KeyNo(3)

\* the position of the first record of the list that lacks a field
FirstIncomplete(list) ==
    CHOOSE i \in 1..Len(list) :
        /\ ~list[i].hasKey \/ ~list[i].hasUri
        /\ \A j \in 1..(i - 1) : list[j].hasKey /\ list[j].hasUri

\* C16: an upload or allocation whose request for keys was answered ok with
\* a list in which a record lacks its storage key or its uri has failed with
\* an InvariantError naming the missing field of the first such record; it
\* holds and returned no resource, built no entries and sent no create
\* request.
C16_IncompleteRecordIsFatal ==
    \A u \in Uploads :
        LET upload == ups[u] IN
        (upload.answered /\ \E i \in 1..Len(upload.response) :
                               ~upload.response[i].hasKey \/ ~upload.response[i].hasUri) =>
            /\ upload.pc = "threw"
            /\ upload.error.name = "InvariantError"
            /\ upload.error.message[1] =
                   (IF upload.response[FirstIncomplete(upload.response)].hasKey
                    THEN "Missing 'uri' in response: "
                    ELSE "Missing 'storage_key' in response: ")
            /\ upload.allocations = <<>>
            /\ upload.result = <<>>
            /\ upload.entries = <<>>
            /\ \A i \in 1..Len(upload.sent) : upload.sent[i].type /= "POST"
            /\ upload.allocation /= "fulfilled"

C16_Witness ==
    \E u \in Uploads :
        /\ ups[u].op = "uploadFolder"
        /\ Len(ups[u].files) = 1
        /\ Len(ups[u].response) = 2
        /\ ups[u].response[1].hasKey /\ ups[u].response[1].hasUri
        /\ ups[u].response[2].hasKey /\ ~ups[u].response[2].hasUri
        /\ ups[u].pc = "threw"
        /\ ups[u].error.name = "InvariantError"

\* the policy that goes with an acl option
PolicyFor(options) ==
    IF options.template = "undefined"
    THEN [options EXCEPT !.template = "immutable", !.chainId = DefaultChainId]
    ELSE options

\* the policies in the lens-acl.json entries of a list of entries
PoliciesIn(entries) ==
    {entries[i].acl : i \in {j \in 1..Len(entries) : entries[j].name = <<"lens-acl.json">>}}

\* C17: the policy an operation resolved is Immutable with the default chain
\* id when the caller gave no acl, and the caller's policy as it is
\* otherwise: the entries uploadFile, uploadAsJson, uploadFolder, editFile
\* and updateJson built hold that policy, in one lens-acl.json entry, and
\* the POST of an immutable file names the chain id of that policy.
C17_AclResolution ==
    /\ \A u \in Uploads :
        LET upload == ups[u] IN
        /\ upload.op \in {"uploadFile", "uploadAsJson"} =>
               upload.acl = PolicyFor(upload.options)
        /\ upload.entries /= <<>> =>
            /\ PoliciesIn(upload.entries) = {PolicyFor(upload.options)}
            /\ upload.acl = PolicyFor(upload.options)
        /\ \A i \in 1..Len(upload.sent) :
            /\ upload.sent[i].type = "POST ?chain_id" =>
                /\ PolicyFor(upload.options).template = "immutable"
                /\ upload.sent[i].chain_id = PolicyFor(upload.options).chainId
            /\ upload.sent[i].type = "POST" =>
                   PoliciesIn(upload.sent[i].entries) = {PolicyFor(upload.options)}
    /\ \A c \in Calls :
        LET call == calls[c] IN
        /\ call.entries /= <<>> => PoliciesIn(call.entries) = {PolicyFor(call.options)}
        /\ \A i \in 1..Len(call.sent) :
               call.sent[i].type = "PUT" =>
                   PoliciesIn(call.sent[i].entries) = {PolicyFor(call.options)}
    /\ PolicyFor(NoAcl).template = "immutable" /\ PolicyFor(NoAcl).chainId = 232

C17_Witness ==
    /\ calls["c1"].op = "updateJson"
    /\ calls["c1"].options = NoAcl
    /\ calls["c1"].pc = "PUT"
    /\ calls["c1"].entries[2].acl.template = "immutable"
    /\ calls["c1"].entries[2].acl.chainId = 232

(***************************************************************************)
(* The lens-acl.json document: properties.                                 *)
(***************************************************************************)
\* the names of the properties of a document
Keys(content) == {content[i].key : i \in 1..Len(content)}

\* the value of the property of that name
ValueOf(content, key) == content[CHOOSE i \in 1..Len(content) : content[i].key = key].value

\* the properties a document of the variant is to have
FieldsOf(template) ==
    CASE template = "immutable" -> {"template", "chain_id"}
      [] template = "lens_account" -> {"template", "chain_id", "lens_account"}
      [] template = "wallet_address" -> {"template", "chain_id", "wallet_address"}
      [] template = "generic_acl" ->
            {"template", "chain_id", "contract_address", "function_sig", "params",
             "network_type"}
      [] OTHER -> {}

Variants == {"immutable", "lens_account", "wallet_address", "generic_acl"}

\* C18: for a policy of one of the four variants createAclEntry makes the
\* document lens-acl.json with the template and exactly the fields of the
\* variant, each once, under its snake_case name and with the value it has
\* in the policy, network_type being evm; for any other discriminant it
\* fails with an InvariantError and makes no document.
C18_AclDocumentIsExact ==
    document.called =>
        IF policy.template \in Variants
        THEN /\ document.error = NoError
             /\ document.name = <<"lens-acl.json">>
             /\ Keys(document.content) = FieldsOf(policy.template)
             /\ Len(document.content) = Cardinality(FieldsOf(policy.template))
             /\ ValueOf(document.content, "template") = policy.template
             /\ ValueOf(document.content, "chain_id") = policy.chainId
             /\ policy.template = "lens_account" =>
                    ValueOf(document.content, "lens_account") = policy.lensAccount
             /\ policy.template = "wallet_address" =>
                    ValueOf(document.content, "wallet_address") = policy.walletAddress
             /\ policy.template = "generic_acl" =>
                    /\ ValueOf(document.content, "contract_address") = policy.contractAddress
                    /\ ValueOf(document.content, "function_sig") = policy.functionSig
                    /\ ValueOf(document.content, "params") = policy.params
                    /\ ValueOf(document.content, "network_type") = "evm"
        ELSE /\ document.error.name = "InvariantError"
             /\ document.content = <<>>
             /\ document.name = <<>>

C18_Witness ==
    /\ document.called
    /\ policy.template = "generic_acl"
    /\ policy.params = <<"<recovered_address>", "1">>
    /\ policy.chainId = 37111
    /\ Len(document.content) = 6

(***************************************************************************)
(* The multipart body: properties.                                         *)
(***************************************************************************)
\* the bytes the stream has emitted
Emitted == SumOf([i \in 1..Len(chunks) |-> chunks[i].size])

\* the bytes of the chunks of that kind
EmittedAs(kind) ==
    SumOf([i \in 1..Len(chunks) |-> IF chunks[i].kind = kind THEN chunks[i].size ELSE 0])

\* C19: once the closing line is emitted, and so when the stream is closed,
\* the Content-Length that was declared is the number of bytes the stream
\* emitted, which are the bytes of the boundary lines, the
\* Content-Disposition and Content-Type lines, the contents and the CRLFs of
\* the parts and of the closing boundary; before that the stream has
\* emitted fewer bytes than were declared.
C19_DeclaredLengthIsStreamLength ==
    /\ at.step \in {"returning", "closed"} =>
        /\ declared = Emitted
        /\ declared = EmittedAs("boundary") + EmittedAs("disposition") + EmittedAs("type")
                         + EmittedAs("content") + EmittedAs("crlf") + EmittedAs("closing")
        /\ EmittedAs("content") = SumOf([i \in 1..Len(parts) |-> SumOf(parts[i].file.content)])
    /\ at.step \notin {"idle", "returning", "closed"} => Emitted < declared

C19_Witness ==
    /\ at.step = "closed"
    /\ Len(parts) = 2
    /\ parts[1].file.name = <<"caf\\u00e9.txt">>
    /\ parts[2].file.content = <<3, 2>>
    /\ declared = Emitted

\* the kinds of the chunks emitted for the entry, in the order emitted
KindsOf(e) ==
    LET own == SelectSeq(chunks, LAMBDA chunk : chunk.of = e) IN
    [i \in 1..Len(own) |-> own[i].kind]

\* the kinds of the chunks a part is made of
KindsOfPart(e) ==
    <<"boundary", "disposition", "type">>
        \o [k \in 1..Len(parts[e].file.content) |-> "content"]
        \o <<"crlf">>

\* C20: the chunks of the entries are emitted in the order of the entries and
\* those of one entry together; a part is its boundary line, made of the
\* boundary of the body, its Content-Disposition line with the name of the
\* entry and of its file, its Content-Type line, the chunks of its file and
\* a CRLF; the closing boundary is emitted once, last, when every part is
\* complete.
C20_PartsInOrderOneClosing ==
    /\ \A i, j \in 1..Len(chunks) :
        i < j =>
            /\ chunks[i].kind /= "closing"
            /\ chunks[j].kind = "closing" \/ chunks[i].of <= chunks[j].of
    /\ \A i \in 1..Len(chunks) :
        LET chunk == chunks[i] IN
        /\ chunk.kind = "closing" =>
            /\ chunk.text = <<"--">> \o boundary \o <<"--\\r\\n">>
            /\ \A e \in 1..Len(parts) : KindsOf(e) = KindsOfPart(e)
        /\ chunk.kind /= "closing" =>
            /\ chunk.of \in 1..Len(parts)
            /\ IsPrefix(KindsOf(chunk.of), KindsOfPart(chunk.of))
            /\ \A e \in 1..(chunk.of - 1) : KindsOf(e) = KindsOfPart(e)
        /\ chunk.kind = "boundary" => chunk.text = <<"--">> \o boundary \o <<"\\r\\n">>
        /\ chunk.kind = "disposition" =>
               chunk.text = <<"Content-Disposition: form-data; name=\"">>
                               \o parts[chunk.of].name \o <<"\"; filename=\"">>
                               \o parts[chunk.of].file.name \o <<"\"\\r\\n">>
        /\ chunk.kind = "type" =>
               chunk.text = <<"Content-Type: ">> \o parts[chunk.of].file.type
                               \o <<"\\r\\n\\r\\n">>
        /\ chunk.kind = "crlf" => chunk.text = <<"\\r\\n">>
    /\ \A e \in 1..Len(parts) :
        LET own == SelectSeq(chunks, LAMBDA chunk : chunk.of = e /\ chunk.kind = "content") IN
        \A k \in 1..Len(own) : own[k].size = parts[e].file.content[k]
    /\ Cardinality({i \in 1..Len(chunks) : chunks[i].kind = "closing"})
          = (IF at.step \in {"returning", "closed"} THEN 1 ELSE 0)

C20_Witness ==
    /\ at.step = "closed"
    /\ Len(parts) = 2
    /\ parts[1].name = <<"key-1">>
    /\ parts[2].name = <<"lens-acl.json">>
    /\ Len(chunks) = 12
    /\ chunks[12].kind = "closing"

(***************************************************************************)
(* The parts of the multipart requests: properties.                        *)
(***************************************************************************)
\* the multipart requests the client has sent, each with the storage keys
\* of the allocation its builder was made from
MultipartRequests ==
    UNION {{[keys |-> {ups[u].allocations[i].storageKey :
                          i \in 1..Len(ups[u].allocations)},
             entries |-> ups[u].sent[k].entries] :
               k \in {n \in 1..Len(ups[u].sent) : ups[u].sent[n].type = "POST"}} :
           u \in Uploads}
    \cup
    UNION {{[keys |-> {calls[c].storageKey},
             entries |-> calls[c].sent[k].entries] :
               k \in {n \in 1..Len(calls[c].sent) : calls[c].sent[n].type = "PUT"}} :
           c \in Calls}

\* C21: in every multipart request sent (the create of uploadFile and of
\* uploadFolder, the update of editFile) no two parts have the same name,
\* and every part name is a storage key of the allocation of the request,
\* or lens-acl.json, or index.json.
C21_PartNamesDistinctKeys ==
    \A request \in MultipartRequests :
        /\ \A i, j \in 1..Len(request.entries) :
               i /= j => request.entries[i].name /= request.entries[j].name
        /\ \A i \in 1..Len(request.entries) :
               request.entries[i].name
                   \in request.keys \cup {<<"lens-acl.json">>, <<"index.json">>}

C21_Witness ==
    /\ ups["u1"].op = "uploadFolder"
    /\ ups["u1"].index = "true"
    /\ Len(ups["u1"].files) = 2
    /\ ups["u1"].pc = "POST"
    /\ \E request \in MultipartRequests : Len(request.entries) = 4

\* the files among the first i things the builder was asked to add
FilesAmong(i) == Cardinality({k \in 1..i : added[k].kind = "file"})

NoKeyAvailable == InvariantError(<<"Unexpected file, no storage key available">>)

\* C22: the entries of a builder are what it was asked to add, in the order
\* of the calls; the i-th file, whichever of withFile, withFiles and
\* withIndexFile added it, is named by the i-th storage key of the
\* allocations, the policy takes no key, and a file for which no key is left
\* makes the call fail with an invariant failure.
C22_FilesBoundToKeysInOrder ==
    LET allocations == entriesBuilder.allocations
        entries == entriesBuilder.entries IN
    /\ entriesBuilder.error = NoError =>
        /\ Len(entries) = Len(added)
        /\ \A i \in 1..Len(added) :
            /\ entries[i].file = added[i].file
            /\ added[i].kind = "file" =>
                /\ FilesAmong(i) <= Len(allocations)
                /\ entries[i].name = allocations[FilesAmong(i)].storageKey
            /\ added[i].kind = "acl" => entries[i].name = <<"lens-acl.json">>
    /\ FilesAmong(Len(added)) > Len(allocations) <=> entriesBuilder.error = NoKeyAvailable

C22_Witness ==
    /\ Len(entriesBuilder.allocations) = 2
    /\ entriesBuilder.error = NoError
    /\ Len(added) = 3
    /\ added[1].kind = "acl"
    /\ added[3].file = <<"index.json">>
    /\ entriesBuilder.entries[3].name = KeyNo(2)

\* the parts of the entries whose file is named index.json
IndexParts(entries) == {i \in 1..Len(entries) : entries[i].file = <<"index.json">>}

IndexNameError == InvariantError(<<"Index file must be named 'index.json'">>)

\* the parts of the entries that are named index.json
PartsNamedIndex(entries) == {i \in 1..Len(entries) : entries[i].name = <<"index.json">>}

\* C23 as stated: uploadFolder asked for an index (true, a File index.json,
\* a content factory) and given the keys it asked for builds entries with
\* exactly one index part, and that part is named index.json.
C23_Original ==
    \A u \in Uploads :
        LET upload == ups[u] IN
        (/\ upload.op = "uploadFolder"
         /\ upload.index \in {"true", "file"} \cup Factories
         /\ upload.allocation = "fulfilled"
         /\ Len(upload.allocations) = upload.amount)
        => \E i \in 1..Len(upload.entries) :
               /\ PartsNamedIndex(upload.entries) = {i}
               /\ IndexParts(upload.entries) = {i}

\* C23: uploadFolder asked for an index (true, a File index.json, a content
\* factory) and given the keys it asked for builds entries with exactly one
\* part of the file index.json: it follows the parts of the files and
\* precedes the policy. No part is named index.json: the part name of the
\* index is the storage key that follows those of the files.
C23_OneIndexPart ==
    \A u \in Uploads :
        LET upload == ups[u]
            n == Len(upload.files) IN
        (/\ upload.op = "uploadFolder"
         /\ upload.index \in {"true", "file"} \cup Factories
         /\ upload.allocation = "fulfilled"
         /\ Len(upload.allocations) = upload.amount)
        => /\ IndexParts(upload.entries) = {n + 1}
           /\ Len(upload.entries) = n + 2
           /\ upload.entries[n + 1].name = upload.allocations[n + 2].storageKey
           /\ PartsNamedIndex(upload.entries) = {}
           /\ \A k \in 1..Len(upload.sent) :
                  upload.sent[k].type = "POST" =>
                      /\ IndexParts(upload.sent[k].entries) = {n + 1}
                      /\ PartsNamedIndex(upload.sent[k].entries) = {}

C23_Witness ==
    /\ ups["u1"].op = "uploadFolder"
    /\ ups["u1"].index = "factory"
    /\ Len(ups["u1"].files) = 1
    /\ ups["u1"].pc = "POST"
    /\ IndexParts(ups["u1"].sent[2].entries) = {2}
    /\ ups["u1"].sent[2].entries[2].name = KeyNo(3)

\* C24: uploadFolder given as index a File that is not named index.json
\* sends no create request and builds no entries; once its keys are
\* allocated it has failed with the invariant error of the index name.
C24_MisnamedIndexFails ==
    \A u \in Uploads :
        LET upload == ups[u] IN
        (upload.op = "uploadFolder" /\ upload.index = "misnamed file")
        => /\ \A k \in 1..Len(upload.sent) : upload.sent[k].type /= "POST"
           /\ upload.entries = <<>>
           /\ upload.pc \notin {"multipart", "POST", "returned"}
           /\ upload.allocation = "fulfilled" =>
                  upload.pc = "threw" /\ upload.error = IndexNameError

C24_Witness ==
    /\ ups["u1"].op = "uploadFolder"
    /\ ups["u1"].index = "misnamed file"
    /\ Len(ups["u1"].files) = 2
    /\ ups["u1"].allocation = "fulfilled"
    /\ Len(ups["u1"].allocations) = 4
    /\ ups["u1"].error = IndexNameError

(***************************************************************************)
(* The probe and the choice of the encoding: properties.                   *)
(***************************************************************************)
\* C25: detectStreamSupport runs at most once after it has completed: no
\* call of createMultipartRequestInit begins a probe when a probe of the
\* process has completed, only calls that begin before may each run one.
C25_ProbedOncePerProcess ==
    \A r \in Requests : inits[r].pc /= "idle" => inits[r].after = 0

\* where the token is in the line
Position(line, token) ==
    CHOOSE i \in 1..Len(line) :
        line[i] = token /\ \A j \in 1..(i - 1) : line[j] /= token

\* the name and the filename a Content-Disposition line of the stream carries
NameIn(line) == SubSeq(line, 2, Position(line, "\"; filename=\"") - 1)

FilenameIn(line) == SubSeq(line, Position(line, "\"; filename=\"") + 1, Len(line) - 1)

\* C26: when a probe has reported that streaming is not supported, every
\* RequestInit of the process has a FormData as body and none of the headers
\* and options of the streaming encoding; the FormData has one part for each
\* entry, in the order of the entries, with the name and the filename the
\* Content-Disposition line of the stream would carry and with the file of
\* the entry as content.
C26_UnsupportedMeansFormData ==
    \A r \in Requests :
        (inits[r].pc = "made" /\ ~inits[r].supported) =>
            /\ \A q \in Requests :
                inits[q].pc = "made" =>
                    /\ inits[q].init.body.kind = "FormData"
                    /\ inits[q].init.duplex = ""
                    /\ inits[q].init.contentType = <<>>
                    /\ inits[q].init.method = inits[q].method
            /\ LET made == inits[r].init.body.parts
                   entries == inits[r].entries IN
               /\ Len(made) = Len(entries)
               /\ \A i \in 1..Len(entries) :
                   LET line == ContentDisposition(entries[i].name, entries[i].file) IN
                   /\ made[i].name = NameIn(line)
                   /\ made[i].filename = FilenameIn(line)
                   /\ made[i].value.content = entries[i].file.content
                   /\ made[i].value.type = entries[i].file.type

C26_Witness ==
    /\ runtime = "stringifies"
    /\ inits["r1"].pc = "made"
    /\ inits["r2"].pc = "made"
    /\ inits["r2"].after = 1
    /\ Len(inits["r2"].entries) = 2
    /\ inits["r2"].entries[1].name /= inits["r2"].entries[2].name
    /\ inits["r2"].init.body.kind = "FormData"
    /\ Len(inits["r2"].init.body.parts) = 2

(***************************************************************************)
(* The requests of the operations: properties.                             *)
(***************************************************************************)
\* the operation failed with the StorageClientError made from the response
FailedWith(invocation) ==
    /\ invocation.pc = "threw"
    /\ invocation.error = StorageClientErrorFromResponse(invocation.refused.body)

\* a response that is not ok to link/new, to a create request, to the update
\* request or to the status query makes the operation fail with the
\* StorageClientError made from it
RefusalsFail ==
    /\ \A c \in Calls :
           calls[c].refused.at \in {"PUT", "GET status"} => FailedWith(calls[c])
    /\ \A u \in Uploads :
           ups[u].refused.at \in {"link/new", "POST", "POST ?chain_id"} => FailedWith(ups[u])
    /\ lastStatus = "not_ok" => mpc = "failed" /\ merror.name = "StorageClientError"

\* C27 as stated: a response that is not ok to any of link/new, create,
\* update, DELETE and the status query makes the operation fail with a
\* StorageClientError, and the operation does not return.
C27_Original ==
    /\ RefusalsFail
    /\ \A c \in Calls : calls[c].refused.at = "DELETE" => FailedWith(calls[c])

\* C27: a response that is not ok to link/new, create, update or the status
\* query makes the operation fail with the StorageClientError made from the
\* response; a response that is not ok to the DELETE request makes delete
\* return success: false, and delete returns success: true only when no
\* response was refused.
C27_RefusalFailsButDeleteReturns ==
    /\ RefusalsFail
    /\ \A c \in Calls :
        /\ calls[c].refused.at = "DELETE" =>
            /\ calls[c].pc = "returned"
            /\ calls[c].success = FALSE
            /\ calls[c].error = NoError
        /\ (calls[c].pc = "returned" /\ calls[c].op /= "delete") =>
               calls[c].refused = NotRefused
        /\ calls[c].success => calls[c].refused = NotRefused
    /\ \A u \in Uploads : ups[u].pc = "returned" => ups[u].refused = NotRefused
    /\ mpc = "succeeded" => lastStatus = "done"

C27_Witness ==
    /\ calls["c1"].op = "delete"
    /\ calls["c1"].refused.at = "DELETE"
    /\ calls["c1"].refused.body.text = <<"Bad Gateway">>
    /\ calls["c1"].pc = "returned"
    /\ ~calls["c1"].success

\* the requests of that type among those sent
CountOf(sent, type) == Cardinality({k \in 1..Len(sent) : sent[k].type = type})

\* C28: an invocation sends each of challenge/new, challenge/sign, the
\* update, the DELETE, link/new and the create request at most once (and
\* asks the signer once), whatever it is answered; the wait for propagation
\* sends a further status query only after an answer with a status that is
\* not terminal, and a wait.
C28_NothingRetried ==
    /\ \A c \in Calls :
           \A type \in {"challenge/new", "signMessage", "challenge/sign", "PUT", "DELETE",
                         "GET status"} :
               CountOf(calls[c].sent, type) <= 1
    /\ \A u \in Uploads :
           \A type \in {"link/new", "POST", "POST ?chain_id"} :
               CountOf(ups[u].sent, type) <= 1
    /\ queries <= pending + 1
    /\ waits = pending
    /\ \A i \in 2..Len(mtrace) : mtrace[i] = "query" => mtrace[i - 1] = "wait"

C28_Witness ==
    /\ calls["c1"].op = "editFile"
    /\ calls["c1"].refused.at = "PUT"
    /\ calls["c1"].pc = "threw"
    /\ CountOf(calls["c1"].sent, "challenge/new") = 1
    /\ CountOf(calls["c1"].sent, "challenge/sign") = 1
    /\ CountOf(calls["c1"].sent, "PUT") = 1

\* C29: resolve, delete, editFile, updateJson and status address the storage
\* key k whether they are given k or lens://k: their requests carry k,
\* resolve returns backend/k, and editFile and updateJson return the resource
\* of k.
C29_KeyOrUriAlike ==
    \A c \in Calls :
        calls[c].op \in {"resolve", "delete", "editFile", "updateJson", "status"} =>
            LET k == ReferencedKey(calls[c].arg) IN
            /\ \A i \in 1..Len(calls[c].sent) :
                /\ calls[c].sent[i].type \in {"challenge/new", "DELETE", "PUT", "GET status"}
                       => calls[c].sent[i].storage_key = k
                /\ calls[c].sent[i].type = "PUT" => calls[c].sent[i].entries[1].name = k
            /\ calls[c].op = "resolve" =>
                /\ calls[c].pc = "returned"
                /\ calls[c].url = Backend \o <<"/">> \o k
            /\ (calls[c].op \in {"editFile", "updateJson"} /\ calls[c].pc = "returned") =>
                   calls[c].result = [storageKey |-> k,
                                      gatewayUrl |-> Backend \o <<"/">> \o k,
                                      uri |-> <<"lens", "://">> \o k]

C29_Witness ==
    /\ calls["c1"].op = "editFile"
    /\ calls["c1"].arg = <<"lens", "://", "k2">>
    /\ calls["c1"].pc = "returned"
    /\ calls["c1"].result.storageKey = <<"k2">>
    /\ calls["c1"].sent[4].storage_key = <<"k2">>

\* C30: a create request is the second request of its upload, after link/new:
\* it is sent when the allocation has been answered and fulfilled, to the
\* first key of the response, with the entries built from the allocation,
\* whose files are named by keys of the response; entries are built only
\* from a fulfilled allocation, and an upload whose allocation failed has
\* failed without a create request.
C30_AllocateBuildSend ==
    \A u \in Uploads :
        LET upload == ups[u] IN
        /\ \A k \in 1..Len(upload.sent) :
            upload.sent[k].type = "POST" =>
                /\ k = 2
                /\ upload.sent[1].type = "link/new"
                /\ upload.answered
                /\ upload.allocation = "fulfilled"
                /\ upload.response /= <<>>
                /\ upload.sent[k].storage_key = upload.response[1].storage_key
                /\ upload.sent[k].entries = upload.entries
                /\ upload.entries /= <<>>
                /\ \A i \in 1..(Len(upload.entries) - 1) :
                       \E j \in 1..Len(upload.response) :
                           upload.entries[i].name = upload.response[j].storage_key
        /\ upload.entries /= <<>> => upload.allocation = "fulfilled"
        /\ upload.pc \in {"multipart", "POST"} => upload.allocation = "fulfilled"
        /\ upload.allocation = "rejected" =>
            /\ upload.pc = "threw"
            /\ CountOf(upload.sent, "POST") = 0
        /\ upload.allocation = "pending" => CountOf(upload.sent, "POST") = 0

C30_Witness ==
    /\ ups["u1"].op = "uploadFolder"
    /\ Len(ups["u1"].files) = 2
    /\ ups["u1"].index = "absent"
    /\ ups["u1"].pc = "POST"
    /\ ups["u1"].sent[2].storage_key = KeyNo(1)
    /\ ups["u1"].sent[2].entries[1].name = KeyNo(2)

\* the requests that carry content to the backend
ContentRequests == {"POST", "POST ?chain_id"}

\* the last of the entries is the part of the policy
CarriesAcl(entries, acl) ==
    /\ entries /= <<>>
    /\ entries[Len(entries)] = createAclEntry(acl).entry

\* C31 as stated: the request that carries the content of an upload follows
\* the link/new request of that upload, goes to the key that link/new
\* returned, and has entries that end with the part of the resolved policy.
C31_Original ==
    \A u \in Uploads :
        \A k \in 1..Len(ups[u].sent) :
            ups[u].sent[k].type \in ContentRequests =>
                /\ k = 2
                /\ ups[u].sent[1].type = "link/new"
                /\ ups[u].response /= <<>>
                /\ ups[u].sent[k].storage_key = ups[u].response[1].storage_key
                /\ CarriesAcl(ups[u].sent[k].entries, resolveAcl(ups[u].options))

\* C31: uploadFolder, and uploadFile and uploadAsJson under a policy that is
\* not immutable, first obtain their keys with link/new and then send one
\* POST to backend/{storageKey} whose entries end with the part of the
\* resolved policy, without chain_id; uploadFile and uploadAsJson under the
\* immutable policy (the default) send no link/new: their only request is
\* one POST to backend?chain_id={chainId} with the file itself as body, no
\* storage key and no entries, and the resource returned is the one of the
\* response.
C31_ImmutableFileIsOneRawPost ==
    \A u \in Uploads :
        LET upload == ups[u]
            acl == resolveAcl(upload.options)
            oneStep == upload.op \in {"uploadFile", "uploadAsJson"}
                           /\ acl.template = "immutable" IN
        /\ \A k \in 1..Len(upload.sent) :
            /\ upload.sent[k].type = "POST" =>
                /\ ~oneStep
                /\ k = 2
                /\ upload.sent[1].type = "link/new"
                /\ upload.response /= <<>>
                /\ upload.sent[k].storage_key = upload.response[1].storage_key
                /\ upload.sent[k].chain_id = 0
                /\ CarriesAcl(upload.sent[k].entries, acl)
            /\ upload.sent[k].type = "POST ?chain_id" =>
                /\ oneStep
                /\ k = 1
                /\ upload.sent[k].chain_id = acl.chainId
                /\ upload.sent[k].storage_key = <<>>
                /\ upload.sent[k].entries = <<>>
                /\ upload.sent[k].file = upload.files[1]
            /\ upload.sent[k].type = "link/new" => ~oneStep
        /\ (oneStep /\ upload.op /= "none") =>
            /\ Len(upload.sent) = 1
            /\ upload.sent[1].type = "POST ?chain_id"
            /\ upload.pc = "returned" =>
                   upload.result = parseResourceFrom(upload.response).resources

C31_Witness ==
    /\ ups["u1"].op = "uploadFile"
    /\ ups["u1"].options = NoAcl
    /\ ups["u1"].pc = "returned"
    /\ ups["u1"].sent = <<ImmutableRequest(DefaultChainId, FileNo(1))>>
    /\ ups["u1"].result[1].storageKey = KeyNo(1)

\* the invocation failed with an error made from a response that was not ok
RaisedFromResponse(invocation) ==
    invocation.refused /= NotRefused /\ invocation.pc = "threw"

\* what C32 says of the message of that error
MessageAsClaimed(invocation) ==
    LET body == invocation.refused.body IN
    /\ invocation.error.message = (IF body.json THEN body.message ELSE body.text)
    /\ body.text /= <<>> => invocation.error.message /= <<>>

\* C32: the error raised for a response that is not ok has as message the
\* message field of the body when the body is JSON and the raw text of the
\* body otherwise, and that message is not empty when the body is not empty.
C32_MessageFromBody ==
    /\ \A c \in Calls : RaisedFromResponse(calls[c]) => MessageAsClaimed(calls[c])
    /\ \A u \in Uploads : RaisedFromResponse(ups[u]) => MessageAsClaimed(ups[u])

\* the elements of a sequence
Range(seq) == {seq[i] : i \in 1..Len(seq)}

\* C33: the create request of uploadFolder with index: true and N files has
\* an index whose files list is the keys of the resources allocated after the
\* folder's, in the order of the allocation: the keys the N file parts are
\* named by, then the key the index.json part is named by, N+1 keys in all,
\* and the key of the folder is not among them.
C33_DefaultIndexListsMemberKeys ==
    \A u \in Uploads :
        LET upload == ups[u]
            n == Len(upload.files) IN
        (/\ upload.op = "uploadFolder"
         /\ upload.index = "true"
         /\ CountOf(upload.sent, "POST") = 1) =>
            /\ Len(upload.indexContent) = n + 1
            /\ Len(upload.response) = n + 2
            /\ \A i \in 1..(n + 1) :
                /\ upload.indexContent[i] = upload.response[i + 1].storage_key
                /\ upload.indexContent[i] = upload.sent[2].entries[i].name
            /\ \A i \in 1..n : upload.sent[2].entries[i].file = upload.files[i]
            /\ upload.sent[2].entries[n + 1].file = <<"index.json">>
            /\ upload.sent[2].storage_key = upload.response[1].storage_key
            /\ upload.sent[2].storage_key \notin Range(upload.indexContent)

C33_Witness ==
    /\ ups["u1"].op = "uploadFolder"
    /\ ups["u1"].index = "true"
    /\ Len(ups["u1"].files) = 2
    /\ ups["u1"].pc = "returned"
    /\ ups["u1"].sent[2].storage_key = KeyNo(1)
    /\ ups["u1"].indexContent = <<KeyNo(2), KeyNo(3), KeyNo(4)>>

\* the keys of the records of a response
KeysOf(response) == {response[i].storage_key : i \in 1..Len(response)}

\* the entries an upload builds when it runs alone, from what it was called
\* with and the response to its own link/new: its files under the keys that
\* follow the folder's (the file under the only key, for uploadFile), the
\* default index under the next key, and its policy
OwnEntries(upload) ==
    LET n == Len(upload.files)
        first == IF upload.op = "uploadFolder" THEN 1 ELSE 0
        fileParts == [i \in 1..n |->
                         [name |-> upload.response[first + i].storage_key,
                          file |-> upload.files[i], acl |-> NoAcl]]
        indexParts == IF upload.index = "true"
                      THEN <<[name |-> upload.response[first + n + 1].storage_key,
                              file |-> <<"index.json">>, acl |-> NoAcl]>>
                      ELSE <<>> IN
    fileParts \o indexParts \o <<createAclEntry(resolveAcl(upload.options)).entry>>

\* C34: of two uploads in flight together, each sends as create request the
\* entries it would build alone: its own files, named by keys of the response
\* to its own link/new, and its own policy; no part is named by a key of the
\* other's response; and each returns resources of its own response only.
C34_UploadsShareNothing ==
    \A u \in Uploads :
        LET upload == ups[u] IN
        /\ \A k \in 1..Len(upload.sent) :
            upload.sent[k].type = "POST" =>
                /\ upload.sent[k].entries = OwnEntries(upload)
                /\ upload.sent[k].storage_key = upload.response[1].storage_key
                /\ \A i \in 1..(Len(upload.sent[k].entries) - 1) :
                    /\ upload.sent[k].entries[i].name \in KeysOf(upload.response)
                    /\ \A v \in Uploads \ {u} :
                           upload.sent[k].entries[i].name \notin KeysOf(ups[v].response)
        /\ upload.pc = "returned" =>
            /\ upload.result /= <<>>
            /\ \A i \in 1..Len(upload.result) :
                /\ upload.result[i] \in Range(parseResourceFrom(upload.response).resources)
                /\ \A v \in Uploads \ {u} :
                       upload.result[i].storageKey \notin KeysOf(ups[v].response)

\* both create requests are out, the link/new of the second upload having
\* been answered before that of the first
C34_Witness ==
    /\ ups["u1"].op = "uploadFolder"
    /\ ups["u2"].op = "uploadFile"
    /\ ups["u1"].pc = "returned"
    /\ ups["u2"].pc = "returned"
    /\ ups["u2"].result[1].storageKey = KeyNo(1)
    /\ ups["u1"].sent[2].storage_key = KeyNo(2)
    /\ ups["u1"].sent[2].entries[1].name = KeyNo(3)
    /\ Len(ups["u1"].result) = 3

\* the index options that ask for an index
IndexRequested == {"true", "file", "misnamed file"} \cup Factories

\* the resource parseResourceFrom makes of a record
ResourceOf(record) ==
    [storageKey |-> record.storage_key,
     gatewayUrl |-> Backend \o <<"/">> \o record.storage_key,
     uri |-> record.uri]

\* C35: uploadFolder with N files sends one link/new, for N+1 keys without
\* an index and N+2 with one; its one create request goes to the key of the
\* first record of the response, the N files are named in order by the keys
\* of the records that follow and the index by the key after those; the
\* folder returned is the resource of the first record and the files
\* returned are the resources of all the other records, in their order.
C35_FolderAllocationAndBinding ==
    \A u \in Uploads :
        LET upload == ups[u]
            n == Len(upload.files)
            extra == IF upload.index \in IndexRequested THEN 1 ELSE 0 IN
        upload.op = "uploadFolder" =>
            /\ CountOf(upload.sent, "link/new") = 1
            /\ upload.sent[1] = LinkNewRequest(n + 1 + extra)
            /\ CountOf(upload.sent, "POST") <= 1
            /\ CountOf(upload.sent, "POST ?chain_id") = 0
            /\ \A k \in 1..Len(upload.sent) :
                upload.sent[k].type = "POST" =>
                    /\ Len(upload.response) = n + 1 + extra
                    /\ upload.sent[k].storage_key = upload.response[1].storage_key
                    /\ Len(upload.sent[k].entries) = n + extra + 1
                    /\ \A i \in 1..n :
                        /\ upload.sent[k].entries[i].name = upload.response[i + 1].storage_key
                        /\ upload.sent[k].entries[i].file = upload.files[i]
                    /\ extra = 1 =>
                        /\ upload.sent[k].entries[n + 1].name =
                               upload.response[n + 2].storage_key
                        /\ upload.sent[k].entries[n + 1].file = <<"index.json">>
            /\ upload.pc = "returned" =>
                /\ CountOf(upload.sent, "POST") = 1
                /\ Len(upload.result) = n + 1 + extra
                /\ upload.result[1] = ResourceOf(upload.response[1])
                /\ Tail(upload.result) =
                       [i \in 1..(n + extra) |-> ResourceOf(upload.response[i + 1])]

C35_Witness ==
    /\ ups["u1"].op = "uploadFolder"
    /\ Len(ups["u1"].files) = 2
    /\ ups["u1"].index = "factory"
    /\ ups["u1"].pc = "returned"
    /\ ups["u1"].sent[1].amount = 4
    /\ ups["u1"].sent[2].storage_key = KeyNo(1)
    /\ ups["u1"].sent[2].entries[3].name = KeyNo(4)
    /\ Len(ups["u1"].result) = 4

\* the parts of the entries that are named lens-acl.json
AclParts(entries) == {i \in 1..Len(entries) : entries[i].name = <<"lens-acl.json">>}

\* C36: every PUT request of editFile and updateJson has exactly one part
\* lens-acl.json, the last, with the policy of the caller when one was given
\* and the immutable policy of the default chain when none was; that default
\* is the policy an upload without acl resolves to.
C36_EditDefaultsToImmutable ==
    /\ \A c \in Calls :
        \A k \in 1..Len(calls[c].sent) :
            calls[c].sent[k].type = "PUT" =>
                LET entries == calls[c].sent[k].entries IN
                /\ AclParts(entries) = {Len(entries)}
                /\ calls[c].options /= NoAcl =>
                       entries[Len(entries)].acl = calls[c].options
                /\ calls[c].options = NoAcl =>
                    /\ entries[Len(entries)].acl.template = "immutable"
                    /\ entries[Len(entries)].acl.chainId = DefaultChainId
    /\ \A u \in Uploads :
        (ups[u].op \in {"uploadFile", "uploadAsJson"} /\ ups[u].options = NoAcl) =>
            /\ ups[u].acl.template = "immutable"
            /\ ups[u].acl.chainId = DefaultChainId

C36_Witness ==
    /\ calls["c1"].op = "editFile"
    /\ calls["c1"].options = NoAcl
    /\ calls["c1"].pc = "returned"
    /\ Len(calls["c1"].sent) = 4
    /\ calls["c1"].sent[4].type = "PUT"
    /\ calls["c1"].sent[4].entries[2] = createAclEntry(immutable(DefaultChainId)).entry

\* C37: under a propagation timeout of 0 or less a wait that was called has
\* failed with the timeout error, at the call, and no status query was sent:
\* nothing the backend would answer is looked at.
C37_NoQueryUnderZeroTimeout ==
    (env.propagationTimeout <= 0 /\ mpc /= "idle") =>
        /\ TimedOut
        /\ queries = 0
        /\ mtrace = <<>>
        /\ lastStatus = "none"
        /\ now = startedAt

C37_Witness ==
    /\ env.propagationTimeout = 0
    /\ TimedOut
    /\ queries = 0

\* an answer decides the wait whenever it comes: done is success, a terminal
\* error status is the failure with that status, and every query was sent
\* before the timeout
AnswerDecides ==
    /\ lastStatus = "done" => mpc = "succeeded"
    /\ lastStatus \in ErrorStatuses =>
        /\ mpc = "failed"
        /\ merror.message = StatusErrorMessage(resource.storageKey, lastStatus)
        /\ merror /= TimeoutError
    /\ queries > 0 => sentAt - startedAt < env.propagationTimeout

\* C38 as stated: an answer decides the wait whenever it comes; the timeout
\* error is raised only after an answer with a status that is not terminal,
\* the elapsed time then exceeding the timeout by at most one polling
\* interval and one query latency.
C38_Original ==
    /\ AnswerDecides
    /\ TimedOut =>
        /\ lastStatus \in PendingStatuses
        /\ Elapsed - env.propagationTimeout
               <= env.propagationPollingInterval + MaxLatency

\* C38: an answer decides the wait whenever it comes, also after the
\* timeout: done is success and a terminal error status the failure with
\* that status.  The timeout error is raised at the head of the loop only:
\* at the call when the timeout is 0 or less, with no answer at all;
\* otherwise after an answer with a status that is not terminal and the wait
\* that follows it, the last query having been sent before the timeout, so
\* that the elapsed time exceeds the timeout by less than one polling
\* interval, one query latency and the lateness of the timer of the wait.
C38_TimeoutOnlyAtLoopHead ==
    /\ AnswerDecides
    /\ (TimedOut /\ env.propagationTimeout <= 0) =>
        /\ lastStatus = "none"
        /\ Elapsed = 0
    /\ (TimedOut /\ env.propagationTimeout > 0) =>
        /\ lastStatus \in PendingStatuses
        /\ waits = queries
        /\ now >= wakeAt
        /\ now - wakeAt <= MaxLateness
        /\ wakeAt - env.propagationPollingInterval - sentAt <= MaxLatency
        /\ Elapsed - env.propagationTimeout
               < env.propagationPollingInterval + MaxLatency + MaxLateness

\* a query sent before the timeout is answered done after it
C38_Witness ==
    /\ mpc = "succeeded"
    /\ lastStatus = "done"
    /\ sentAt - startedAt < env.propagationTimeout
    /\ Elapsed > env.propagationTimeout

\* C39: whatever the content factory does to the array it is given, the
\* create request of uploadFolder names the N files and then the index by
\* the keys that follow the folder's in the response, in their order, and
\* the files returned are the resources of those records, none added, none
\* removed, in that order: as with a factory that only reads its array.
C39_FactoryGetsACopy ==
    \A u \in Uploads :
        LET upload == ups[u]
            n == Len(upload.files) IN
        (upload.op = "uploadFolder" /\ upload.index \in Factories) =>
            /\ \A k \in 1..Len(upload.sent) :
                upload.sent[k].type = "POST" =>
                    /\ Len(upload.sent[k].entries) = n + 2
                    /\ \A i \in 1..(n + 1) :
                           upload.sent[k].entries[i].name = upload.response[i + 1].storage_key
                    /\ \A i \in 1..n : upload.sent[k].entries[i].file = upload.files[i]
                    /\ upload.sent[k].entries[n + 1].file = <<"index.json">>
                    /\ upload.indexContent =
                           IndexFactory(ListAfter(upload.index,
                                                  Tail(parseResourceFrom(upload.response).resources)))
            /\ (upload.allocation = "fulfilled" /\ upload.pc /= "threw") =>
                   upload.allocations = parseResourceFrom(upload.response).resources
            /\ upload.pc = "returned" =>
                /\ upload.result[1] = ResourceOf(upload.response[1])
                /\ Tail(upload.result) =
                       [i \in 1..(n + 1) |-> ResourceOf(upload.response[i + 1])]

\* the factory removed the first element of its array
C39_Witness ==
    /\ ups["u1"].op = "uploadFolder"
    /\ ups["u1"].index = "factory that removes"
    /\ Len(ups["u1"].files) = 2
    /\ ups["u1"].pc = "returned"
    /\ ups["u1"].indexContent = <<LENS_URI_SUFFIX \o KeyNo(3), LENS_URI_SUFFIX \o KeyNo(4)>>
    /\ ups["u1"].sent[2].entries[1].name = KeyNo(2)
    /\ ups["u1"].sent[2].entries[3].name = KeyNo(4)
    /\ Len(ups["u1"].result) = 4

\* C40: in a runtime where the probe fails (making the Request throws, the
\* fetch throws, or the body read back is not the byte sent) a call of
\* createMultipartRequestInit that has settled has resolved, never rejected:
\* the probe answered false and the RequestInit has the method asked for and
\* a FormData of the entries as body, without the headers of the stream.
C40_ProbeFailureMeansFormData ==
    \A r \in Requests :
        /\ inits[r].pc /= "threw"
        /\ inits[r].error = NoError
        /\ (runtime /= "native" /\ inits[r].pc \notin {"idle", "probing"}) =>
            /\ inits[r].pc = "made"
            /\ ~inits[r].supported
            /\ inits[r].init.method = inits[r].method
            /\ inits[r].init.body = createFormData(inits[r].entries)
            /\ inits[r].init.body.kind = "FormData"
            /\ Len(inits[r].init.body.parts) = Len(inits[r].entries)
            /\ inits[r].init.contentType = <<>>
            /\ inits[r].init.duplex = ""
        /\ (runtime = "native" /\ inits[r].pc = "made") =>
               inits[r].init.body.kind = "stream"

C40_Witness ==
    /\ runtime = "request throws"
    /\ inits["r1"].pc = "made"
    /\ inits["r1"].method = "PUT"
    /\ Len(inits["r1"].entries) = 2
    /\ inits["r1"].init.body.kind = "FormData"
    /\ inits["r1"].error = NoError

====
